---- MODULE Spec2Model ----
(***************************************************************************)
(* The event-and-render orchestrator of the Eruption daemon (src/main.rs): *)
(* the main loop thread (the dispatcher), the per-script Lua workers it    *)
(* feeds through LUA_TXS, the (counter, condvar) barriers, the failed set, *)
(* the frame generation protocol and the shutdown sequence.                *)
(*                                                                         *)
(* The worker side (scripting/script.rs) is not part of src/; it is        *)
(* modelled from the specification's worker protocol (section 4.3).        *)
(***************************************************************************)
EXTENDS Integers, Sequences, FiniteSets, TLC

\* ------------------------------------------------------------- bounds
MaxWorkers == 2
MaxQueue == 1
MaxGen == 1
MaxSlot == 1

MaxMotion == 2

\* constants::MAX_EVENTS_PER_ITERATION and
\* constants::EVENTS_UPCALL_RATE_LIMIT_MILLIS, scaled to the model
MAX_EVENTS_PER_ITERATION == 1
EVENTS_UPCALL_RATE_LIMIT_MILLIS == 1

\* constants::MAIN_LOOP_DELAY_MILLIS and
\* constants::MAIN_LOOP_DELAY_OFFSET_MILLIS, scaled to the model
MAIN_LOOP_DELAY_MILLIS == 3
MAIN_LOOP_DELAY_OFFSET_MILLIS == 1

\* the milliseconds of an iteration the model follows
MaxElapsed == 4

Workers == 0 .. (MaxWorkers - 1)
Slots == 0 .. MaxSlot

\* ------------------------------------------------------- message kinds
\* script::Message variants that are answered on an UPCALL_COMPLETED_ON_* barrier
InputKinds ==
    {"KeyDown", "KeyUp", "MouseButtonDown", "MouseButtonUp",
     "MouseMove", "MouseWheelEvent", "HidEvent"}

BarrierKinds == InputKinds \cup {"RealizeColorMap", "Quit"}

MessageKinds == BarrierKinds \cup {"Tick", "SystemEvent"}

Sources == {"system", "filesystem", "dbus", "hid", "mouse", "keyboard"}

\* the sources whose drain returns a pending flag
DrainedSources == {"system", "hid", "mouse", "keyboard"}

\* ------------------------------------------------------- raw events
\* evdev and HID codes of the model; code 0 maps to key index 0
Codes == {0, 1}

\* util::ev_key_to_key_index and util::hid_code_to_key_index: the fixed
\* tables from a code to the logical key index
ev_key_to_key_index(code) == IF code = 0 THEN 0 ELSE code + 3
hid_code_to_key_index(code) == IF code = 0 THEN 0 ELSE code + 6

NoEvent == [type |-> "none", code |-> 0, value |-> 0]

\* what kbd_rx delivers: key events (value 0 release, 1 press, 2 repeat) and
\* events of another type
KeyboardEvents ==
    [type : {"EV_KEY"}, code : Codes, value : {0, 1, 2}]
        \cup [type : {"EV_MSC"}, code : {0}, value : {0, 2}]

\* what the HID layer delivers, HidEvent::Unknown apart
HidEvents == [type : {"KeyDown", "KeyUp", "Other"}, code : Codes, value : {0}]

\* what mouse_rx delivers apart from pointer motion: wheel and button events
MouseEvents ==
    [type : {"REL_WHEEL"}, code : {0}, value : {-1, 1}]
        \cup [type : {"EV_KEY"}, code : {1}, value : {0, 1}]
        \cup [type : {"EV_SYN"}, code : {0}, value : {0}]

\* pointer motion
MotionEvents == [type : {"REL_X", "REL_Y", "REL_Z"}, code : {0}, value : {-1, 1}]

\* profile files: the model has one per slot, the slot's initial profile
Profiles == Slots

\* None of ACTIVE_PROFILE and of ACTIVE_PROFILE_NAME
NoProfile == -1

\* the slots a SwitchSlot command can name: the D-Bus thread passes on the
\* number it was given, which may lie outside the slot map
SlotCommands == 0 .. (MaxSlot + 1)

\* how a call of switch_profile ends: Profile::from fails, a script file or
\* its manifest is inaccessible, or the profile is loaded
SwitchResults == {"profile_error", "script_inaccessible", "ok"}

\* no call of switch_profile in this step
NoSwitch == [result |-> "none", file |-> NoProfile, ops |-> <<>>]

\* process_keyboard_events is not running
NoCall ==
    [at |-> "idle", hid_events_pending |-> FALSE, mouse_events_pending |-> FALSE,
     system_events_pending |-> FALSE, keyboard_events_pending |-> FALSE,
     loop_counter |-> 0, elapsed |-> 0, sleep_millis |-> 0]

\* the argument of a message that carries a key or button index or a direction
Arg(x) == <<x, 0, 0>>

VARIABLES
    \* --- main loop thread
    pc,                       \* position of the main thread
    src,                      \* the source whose drain is running
    bmsg,                     \* the message of the running broadcast
    idx,                      \* enumerate() index of the running broadcast
    hid_key,                  \* KeyDown/KeyUp still to synthesize for the HID event
    failed_txs,               \* run_main_loop: indices of failed Lua TXs
    saved_slot,               \* run_main_loop: slot of the last iteration
    saved_frame_generation,   \* generation currently visible on the keyboard
    current_frame_generation, \* counter value read in this tick
    drop_frame,               \* render pass: do not write this frame
    timed_out,                \* the last wait_for(..) returned by timeout
    \* --- process-wide state
    ACTIVE_SLOT,
    ACTIVE_PROFILE,           \* the profile file of Some(profile), or NoProfile
    ACTIVE_PROFILE_NAME,      \* Some(name), a switch request, or NoProfile
    SLOT_PROFILES,            \* the profile file of each slot
    QUIT,
    LUA_TXS,                  \* number of senders; sender i feeds worker i
    pending,                  \* the counter of each (Mutex<usize>, Condvar)
    signaled,                 \* the parked main thread was notified
    FRAME_GENERATION_COUNTER,
    LED_MAP,                  \* the canvas of the running render pass: the blends
                              \* applied since its clear, in order; it keeps the
                              \* first LUA_TXS + 1 of them, one more than a pass
                              \* asks for (after the pass the canvas is not read
                              \* again before its next clear)
    device,                   \* the LED map the device shows
    \* --- workers
    alive,                    \* the worker's receiver exists
    queue,                    \* the worker's inbound channel
    cur,                      \* the message the worker is processing
    \* --- the drains
    loop_counter,             \* iterations of the running drain loop
    event_processed,          \* the drain's event_processed flag
    events_pending,           \* the pending flag each drain returned in this tick
    event,                    \* the raw event being processed
    barg,                     \* the argument of the message being broadcast
    UINPUT_TX,                \* what the running iteration sent on UINPUT_TX
    mouse_motion_buf,         \* accumulated (dx, dy, dz)
    mouse_move_elapsed,       \* time since mouse_move_event_last_dispatched,
                              \* counted up to the rate limit + 1
    \* --- bookkeeping of the run
    send_failed,              \* indices whose send returned Err in this broadcast
    life_failed,              \* indices that entered failed_txs since the profile was loaded
    consumed,                 \* events the running drain took from its source
    sent,                     \* the sends of the running broadcast: [to, arg]
    motions,                  \* raw motion events received so far
    owed,                     \* per worker: raw motion received and not yet
                              \* delivered to it in a MouseMove
    burst,                    \* raw motion and MouseMove upcalls since time last passed
    dbus_api_tx,              \* the notifications the running step of the loop's
                              \* head or of the D-Bus drain sent on dbus_api_tx
    switch_log,               \* the outcome of the switch_profile call of that
                              \* step and, in order, what it did to LUA_TXS
    kbd_tx,                   \* the keyboard reader thread holds the sender of kbd_rx
    mouse_tx,                 \* the mouse reader thread holds the sender of mouse_rx
    held,                     \* the mutexes the main thread holds, in the order
                              \* of their acquisition
    lock_path,                \* the lock and unlock operations the main thread
                              \* has still to do in the code it is running
    pace                      \* a call of process_keyboard_events, as far as the
                              \* timeout of its receives goes

vars ==
    <<pc, src, bmsg, idx, hid_key, failed_txs, saved_slot,
      saved_frame_generation, current_frame_generation, drop_frame, timed_out,
      ACTIVE_SLOT, ACTIVE_PROFILE, ACTIVE_PROFILE_NAME, QUIT, LUA_TXS, pending,
      signaled, FRAME_GENERATION_COUNTER, LED_MAP, device, alive, queue, cur,
      send_failed, life_failed, loop_counter, event_processed, events_pending,
      event, barg, UINPUT_TX, mouse_motion_buf, mouse_move_elapsed, consumed,
      sent, motions, owed, burst, SLOT_PROFILES, dbus_api_tx, switch_log,
      kbd_tx, mouse_tx, held, lock_path, pace>>

\* groups of variables the actions below leave alone
renderVars ==
    <<saved_frame_generation, current_frame_generation, drop_frame, LED_MAP, device>>

profileVars ==
    <<saved_slot, ACTIVE_SLOT, ACTIVE_PROFILE, ACTIVE_PROFILE_NAME, LUA_TXS,
      life_failed, SLOT_PROFILES, dbus_api_tx, switch_log>>

\* what the profile controller reports
switchVars == <<SLOT_PROFILES, dbus_api_tx, switch_log>>

\* the senders of the input reader threads
readerVars == <<kbd_tx, mouse_tx>>

\* the main thread's use of the mutexes
lockVars == <<held, lock_path>>

paceVars == <<pace>>

workerVars == <<alive, queue, cur>>

drainVars == <<loop_counter, event_processed, events_pending, consumed>>

eventVars == <<event, barg, UINPUT_TX>>

motionVars == <<mouse_motion_buf, mouse_move_elapsed, motions, owed, burst>>

\* ---------------------------------------------------------------- Init
Init ==
    /\ pc = "slot"
    /\ src = "system"
    /\ bmsg = "none"
    /\ idx = 0
    /\ hid_key = "none"
    /\ failed_txs = {}
    /\ saved_slot = 0
    /\ saved_frame_generation = 0
    /\ current_frame_generation = 0
    /\ drop_frame = FALSE
    /\ timed_out = FALSE
    /\ ACTIVE_SLOT = 0
    /\ ACTIVE_PROFILE = NoProfile
    /\ ACTIVE_PROFILE_NAME = NoProfile
    /\ SLOT_PROFILES = [s \in Slots |-> s]
    /\ dbus_api_tx = <<>>
    /\ switch_log = NoSwitch
    /\ kbd_tx = TRUE
    /\ mouse_tx = TRUE
    /\ held = <<>>
    /\ lock_path = <<>>
    /\ pace = NoCall
    /\ QUIT = FALSE
    /\ LUA_TXS = 0
    /\ pending = [k \in BarrierKinds |-> 0]
    /\ signaled = FALSE
    /\ FRAME_GENERATION_COUNTER = 0
    /\ LED_MAP = <<>>
    /\ device = [pattern |-> "init", gen |-> 0]
    /\ alive = [w \in Workers |-> FALSE]
    /\ queue = [w \in Workers |-> <<>>]
    /\ cur = [w \in Workers |-> "idle"]
    /\ send_failed = {}
    /\ life_failed = {}
    /\ loop_counter = 0
    /\ event_processed = FALSE
    /\ events_pending = [s \in DrainedSources |-> FALSE]
    /\ event = NoEvent
    /\ barg = Arg(0)
    /\ UINPUT_TX = <<>>
    /\ mouse_motion_buf = <<0, 0, 0>>
    /\ mouse_move_elapsed = 0
    /\ consumed = 0
    /\ sent = <<>>
    /\ motions = 0
    /\ owed = [w \in Workers |-> <<0, 0, 0>>]
    /\ burst = [raw |-> <<0, 0, 0>>, upcalls |-> <<>>]

\* what the device shows: the initial pattern, the off pattern, or the canvas
\* written for frame generation gen
LedInitPattern == [pattern |-> "init", gen |-> 0]
LedOffPattern == [pattern |-> "off", gen |-> 0]
LedFrame(g) == [pattern |-> "frame", gen |-> g]

\* ------------------------------------------------------- the barriers
\* LUA_TXS.lock().len() - failed_txs.len()
LiveCount == LUA_TXS - Cardinality(failed_txs)

\* *BARRIER.0.lock() = LUA_TXS.lock().len() - failed_txs.len()
Arm(k) == [pending EXCEPT ![k] = LiveCount]

\* the worker side of a barrier: decrement the counter once (never below zero)
Decrement(k) ==
    [pending EXCEPT ![k] = IF pending[k] > 0 THEN pending[k] - 1 ELSE 0]

\* the main thread is blocked in BARRIER.1.wait_for(..) of kind k
ParkedOn(k) ==
    \/ pc = "parked" /\ bmsg = k
    \/ pc = "render_parked" /\ k = "RealizeColorMap"

\* the main thread is between the clear of the canvas and its write
InRenderPass == pc \in {"render_loop", "render_parked", "render_push"}

\* ------------------------------------------------------ switch_profile
\* `lua_tx.send(script::Message::Unload)` for every sender of LUA_TXS
UnloadOps ==
    [i \in 1 .. LUA_TXS |-> [op |-> "Unload", idx |-> i - 1, tx |-> i - 1, ok |-> TRUE]]

\* lua_txs_clear that keeps the senders
lua_txs_kept(len) == len

\* `lua_txs.clear()`: the length of LUA_TXS after it
lua_txs_clear(len) == 0

\* the spawn loop over script_files.iter().enumerate(): script i is given to
\* spawn_lua_thread with thread_idx i, and its sender is pushed behind the
\* `len` senders LUA_TXS holds; `started` are the scripts whose
\* spawn_lua_thread succeeded (a failed spawn drops the receiver, the sender
\* is pushed all the same)
SpawnOps(n, started, len) ==
    [i \in 1 .. n |->
        [op |-> "spawn", idx |-> i - 1, tx |-> len + i - 1, ok |-> (i - 1) \in started]]

\* SwitchProceeds that goes on after a failed pre-flight check
SwitchProceedsUnchecked(res) == res # "script_inaccessible"

\* does switch_profile get past `Profile::from(..)?` and the pre-flight loop
\* with its `return Err(..)`?
SwitchProceeds(res) == res = "ok"

\* switch_profile(profile_file, ..) called after the caller has sent the
\* notifications `before`. With a result other than "ok" it returns Err
\* before it has touched anything. Otherwise Unload is sent to every sender,
\* LUA_TXS is cleared and one sender per script is pushed, ACTIVE_PROFILE is
\* assigned, ActiveProfileChanged is sent and the slot map entry of the
\* active slot is set. The workers of the replaced profile leave the model
\* with their senders.
switch_profile(profile_file, before, res, n, started) ==
    IF SwitchProceeds(res)
    THEN /\ LUA_TXS' = lua_txs_clear(LUA_TXS) + n
         /\ alive' = [w \in Workers |->
                         \E i \in 1 .. n :
                             /\ SpawnOps(n, started, lua_txs_clear(LUA_TXS))[i].tx = w
                             /\ SpawnOps(n, started, lua_txs_clear(LUA_TXS))[i].ok]
         /\ queue' = [w \in Workers |-> <<>>]
         /\ cur' = [w \in Workers |-> "idle"]
         /\ ACTIVE_PROFILE' = profile_file
         /\ life_failed' = {}
         /\ owed' = [w \in Workers |-> mouse_motion_buf]
         /\ dbus_api_tx' = Append(before, "ActiveProfileChanged")
         /\ SLOT_PROFILES' = [s \in Slots |->
                                 IF s = ACTIVE_SLOT THEN profile_file
                                                    ELSE SLOT_PROFILES[s]]
         /\ switch_log' =
                [result |-> res, file |-> profile_file,
                 ops |-> UnloadOps
                             \o <<[op |-> "clear", idx |-> 0, tx |-> 0, ok |-> TRUE]>>
                             \o SpawnOps(n, started, lua_txs_clear(LUA_TXS))]
    ELSE /\ dbus_api_tx' = before
         /\ switch_log' = [result |-> res, file |-> profile_file, ops |-> <<>>]
         /\ UNCHANGED <<LUA_TXS, alive, queue, cur, ACTIVE_PROFILE, life_failed, owed,
                        SLOT_PROFILES>>

\* the outcomes of one call of switch_profile, as the file system decides
SwitchOutcome(profile_file, before) ==
    \E res \in SwitchResults, n \in 0 .. MaxWorkers :
        \E started \in SUBSET (0 .. (n - 1)) :
            switch_profile(profile_file, before, res, n, started)

\* failed_txs_clear that leaves the set as it is
failed_txs_kept == failed_txs

\* `failed_txs.clear()` at a slot change or profile switch: the set after it
failed_txs_clear == {}

\* ------------------------------------------- run_main_loop: its head
\* slot changed? The lookup `slot_profiles[active_slot]` panics when the
\* active slot lies outside the slot map.
SlotChanged ==
    /\ pc = "slot"
    /\ IF ACTIVE_SLOT # saved_slot \/ ACTIVE_PROFILE = NoProfile
       THEN IF ACTIVE_SLOT \in DOMAIN SLOT_PROFILES
            THEN /\ SwitchOutcome(SLOT_PROFILES[ACTIVE_SLOT], <<"ActiveSlotChanged">>)
                 /\ saved_slot' = ACTIVE_SLOT
                 /\ failed_txs' = failed_txs_clear
                 /\ pc' = "profile_name"
            ELSE /\ pc' = "panicked"
                 /\ dbus_api_tx' = <<"ActiveSlotChanged">>
                 /\ switch_log' = NoSwitch
                 /\ UNCHANGED <<LUA_TXS, alive, queue, cur, ACTIVE_PROFILE,
                                life_failed, saved_slot, failed_txs, owed,
                                SLOT_PROFILES>>
       ELSE /\ pc' = "profile_name"
            /\ dbus_api_tx' = <<>>
            /\ switch_log' = NoSwitch
            /\ UNCHANGED <<LUA_TXS, alive, queue, cur, ACTIVE_PROFILE, life_failed,
                           saved_slot, failed_txs, owed, SLOT_PROFILES>>
    /\ UNCHANGED <<drainVars, eventVars, sent, mouse_motion_buf, mouse_move_elapsed,
                   motions, burst>>
    /\ UNCHANGED <<src, bmsg, idx, hid_key, saved_frame_generation,
                   current_frame_generation, drop_frame, timed_out, ACTIVE_SLOT,
                   ACTIVE_PROFILE_NAME, QUIT, pending, signaled,
                   FRAME_GENERATION_COUNTER, LED_MAP, device, send_failed>>
    /\ UNCHANGED <<readerVars, lockVars, paceVars>>

\* active profile name changed? ActiveProfileChanged is sent before
\* switch_profile is called.
ProfileNameChanged ==
    /\ pc = "profile_name"
    /\ IF ACTIVE_PROFILE_NAME # NoProfile
       THEN /\ SwitchOutcome(ACTIVE_PROFILE_NAME, <<"ActiveProfileChanged">>)
            /\ failed_txs' = failed_txs_clear
       ELSE /\ dbus_api_tx' = <<>>
            /\ switch_log' = NoSwitch
            /\ UNCHANGED <<LUA_TXS, alive, queue, cur, ACTIVE_PROFILE, life_failed,
                           failed_txs, owed, SLOT_PROFILES>>
    /\ pc' = "profile_name_reset"
    /\ UNCHANGED <<drainVars, eventVars, sent, mouse_motion_buf, mouse_move_elapsed,
                   motions, burst>>
    /\ UNCHANGED <<src, bmsg, idx, hid_key, saved_slot, saved_frame_generation,
                   current_frame_generation, drop_frame, timed_out, ACTIVE_SLOT,
                   ACTIVE_PROFILE_NAME, QUIT, pending, signaled,
                   FRAME_GENERATION_COUNTER, LED_MAP, device, send_failed>>
    /\ UNCHANGED <<readerVars, lockVars, paceVars>>

\* *ACTIVE_PROFILE_NAME.lock() = None; then the plugins' main loop hooks
ProfileNameReset ==
    /\ pc = "profile_name_reset"
    /\ ACTIVE_PROFILE_NAME' = NoProfile
    /\ pc' = "drain"
    /\ src' = "system"
    /\ dbus_api_tx' = <<>>
    /\ switch_log' = NoSwitch
    /\ UNCHANGED <<drainVars, eventVars, motionVars, sent>>
    /\ UNCHANGED <<bmsg, idx, hid_key, failed_txs, saved_slot,
                   saved_frame_generation, current_frame_generation, drop_frame,
                   timed_out, ACTIVE_SLOT, ACTIVE_PROFILE, QUIT, LUA_TXS, pending,
                   signaled, FRAME_GENERATION_COUNTER, LED_MAP, device, alive,
                   queue, cur, send_failed, life_failed, SLOT_PROFILES>>
    /\ UNCHANGED <<readerVars, lockVars, paceVars>>

\* ------------------------------------------------------ the broadcasts
\* start `for (idx, lua_tx) in LUA_TXS.lock().iter().enumerate()` for message k
StartBroadcast(k) ==
    /\ bmsg' = k
    /\ idx' = 0
    /\ send_failed' = {}
    /\ sent' = <<>>
    /\ pc' = "bcast"

\* arm the barrier of input event k, then broadcast it
StartUpcall(k) ==
    /\ pending' = Arm(k)
    /\ StartBroadcast(k)

\* the broadcasts that test `!failed_txs.contains(&idx)`: all but the final Quit
SkipsFailed(k) == k # "Quit"

\* OnSendError with a Tick handler that logs the error and nothing more
OnSendErrorTickLogged(k, i) ==
    IF k = "RealizeColorMap" THEN failed_txs \cup {i} ELSE failed_txs

\* failed_txs after lua_tx.send(k) to index i returned Err: only the Tick and
\* RealizeColorMap handlers insert the index, the others log the error
OnSendError(k, i) ==
    IF k \in {"Tick", "RealizeColorMap"} THEN failed_txs \cup {i} ELSE failed_txs

\* lua_tx.send(k) to index i, with the error handler of that broadcast.
\* Tick and SystemEvent have no barrier and their handlers change nothing of
\* this model: a live worker takes them without a trace in its queue.
\* The sends of an input event and of Tick are logged in `sent` with the
\* argument they carry: MouseMove carries the motion buffer as it is at the
\* send, the tick count of Tick is left out.
Send(k, i) ==
    /\ sent' = IF k \in InputKinds \cup {"Tick"}
               THEN Append(sent, [to |-> i, msg |-> k,
                                  arg |-> CASE k = "MouseMove" -> mouse_motion_buf
                                            [] k = "Tick" -> Arg(0)
                                            [] OTHER -> barg])
               ELSE sent
    /\ IF alive[i]
       THEN /\ IF k \in BarrierKinds
               THEN /\ Len(queue[i]) < MaxQueue
                    /\ queue' = [queue EXCEPT ![i] = Append(@, k)]
               ELSE UNCHANGED queue
            /\ owed' = IF k = "MouseMove"
                       THEN [owed EXCEPT ![i] =
                                [a \in 1 .. 3 |-> @[a] - mouse_motion_buf[a]]]
                       ELSE owed
            /\ UNCHANGED <<failed_txs, send_failed, life_failed>>
       ELSE /\ failed_txs' = OnSendError(k, i)
            /\ life_failed' = life_failed \cup (OnSendError(k, i) \ failed_txs)
            /\ send_failed' = send_failed \cup {i}
            /\ UNCHANGED <<queue, owed>>

\* AfterBroadcast without the wait loop of the input events
AfterBroadcastNoWait(k) ==
    CASE k \in InputKinds \cup {"SystemEvent"} -> "event_done"
      [] k = "Tick" -> "quit_check"
      [] OTHER -> "wait"

\* where the main thread continues when the loop over LUA_TXS has ended
AfterBroadcast(k) ==
    CASE k = "SystemEvent" -> "event_done"
      [] k = "Tick" -> "quit_check"
      [] OTHER -> "wait"

\* one iteration of a broadcast loop, or its end; the MouseMove loop resets
\* the motion buffer after each send; the log of the Tick sends ends with
\* the loop
Broadcast ==
    /\ pc = "bcast"
    /\ IF idx < LUA_TXS
       THEN /\ IF SkipsFailed(bmsg) /\ idx \in failed_txs
               THEN UNCHANGED <<queue, failed_txs, send_failed, life_failed, sent,
                                owed, mouse_motion_buf>>
               ELSE /\ Send(bmsg, idx)
                    /\ mouse_motion_buf' = IF bmsg = "MouseMove"
                                           THEN <<0, 0, 0>> ELSE mouse_motion_buf
            /\ idx' = idx + 1
            /\ UNCHANGED <<pc, bmsg>>
       ELSE /\ pc' = AfterBroadcast(bmsg)
            /\ idx' = 0
            /\ bmsg' = IF AfterBroadcast(bmsg) = "wait" THEN bmsg ELSE "none"
            /\ send_failed' = IF AfterBroadcast(bmsg) = "wait" THEN send_failed ELSE {}
            /\ sent' = IF bmsg = "Tick" THEN <<>> ELSE sent
            /\ UNCHANGED <<queue, failed_txs, life_failed, owed, mouse_motion_buf>>
    /\ UNCHANGED <<drainVars, eventVars, mouse_move_elapsed, motions, burst>>
    /\ UNCHANGED <<src, hid_key, timed_out, QUIT, pending, signaled,
                   FRAME_GENERATION_COUNTER, alive, cur, saved_slot, ACTIVE_SLOT,
                   ACTIVE_PROFILE, ACTIVE_PROFILE_NAME, LUA_TXS,
                   switchVars>>
    /\ UNCHANGED renderVars
    /\ UNCHANGED <<readerVars, lockVars, paceVars>>

\* ----------------------------------------------- the upcall wait loops
\* let mut pending = BARRIER.0.lock(); BARRIER.1.wait_for(&mut pending, ..)
WaitFor ==
    /\ pc = "wait"
    /\ pc' = "parked"
    /\ signaled' = FALSE
    /\ UNCHANGED <<src, bmsg, idx, hid_key, failed_txs, timed_out, QUIT, pending,
                   FRAME_GENERATION_COUNTER, send_failed>>
    /\ UNCHANGED <<renderVars, profileVars, workerVars>>
    /\ UNCHANGED <<drainVars, eventVars, motionVars, sent>>
    /\ UNCHANGED <<readerVars, lockVars, paceVars>>

\* wait_for returns because a worker called notify
WaitNotified ==
    /\ pc = "parked"
    /\ signaled
    /\ pc' = "check"
    /\ timed_out' = FALSE
    /\ signaled' = FALSE
    /\ UNCHANGED <<src, bmsg, idx, hid_key, failed_txs, QUIT, pending,
                   FRAME_GENERATION_COUNTER, send_failed>>
    /\ UNCHANGED <<renderVars, profileVars, workerVars>>
    /\ UNCHANGED <<drainVars, eventVars, motionVars, sent>>
    /\ UNCHANGED <<readerVars, lockVars, paceVars>>

\* the clock advances: mouse_move_event_last_dispatched.elapsed() grows (it is
\* counted up to the rate limit + 1) and a new window of motion events begins
Elapse ==
    /\ mouse_move_elapsed' =
           IF mouse_move_elapsed <= EVENTS_UPCALL_RATE_LIMIT_MILLIS
           THEN mouse_move_elapsed + 1 ELSE mouse_move_elapsed
    /\ burst' = [raw |-> <<0, 0, 0>>, upcalls |-> <<>>]

\* wait_for returns because its timeout expired, which takes time
WaitTimeout ==
    /\ pc = "parked"
    /\ ~signaled
    /\ pc' = "check"
    /\ timed_out' = TRUE
    /\ Elapse
    /\ UNCHANGED <<src, bmsg, idx, hid_key, failed_txs, QUIT, pending, signaled,
                   FRAME_GENERATION_COUNTER, send_failed>>
    /\ UNCHANGED <<renderVars, profileVars, workerVars>>
    /\ UNCHANGED <<drainVars, eventVars, sent, mouse_motion_buf, motions, owed>>
    /\ UNCHANGED <<readerVars, lockVars, paceVars>>

\* the exit test of an input event's wait loop: `if *pending == 0 { break; }`
UpcallLoopEnds == pending[bmsg] = 0

\* after wait_for of an input event's barrier: leave the loop or wait again;
\* a HID key event with a key index > 0 is followed by its KeyDown/KeyUp
UpcallCheck ==
    /\ pc = "check"
    /\ bmsg \in InputKinds
    /\ timed_out' = FALSE
    /\ IF UpcallLoopEnds
       THEN IF bmsg = "HidEvent" /\ hid_key # "none"
            THEN /\ StartUpcall(hid_key)
                 /\ barg' = Arg(hid_code_to_key_index(event.code))
                 /\ hid_key' = "none"
            ELSE /\ pc' = "event_done"
                 /\ bmsg' = "none"
                 /\ UNCHANGED <<idx, hid_key, pending, send_failed, sent, barg>>
       ELSE /\ pc' = "wait"
            /\ UNCHANGED <<bmsg, idx, hid_key, pending, send_failed, sent, barg>>
    /\ UNCHANGED <<drainVars, event, UINPUT_TX, motionVars>>
    /\ UNCHANGED <<src, failed_txs, QUIT, signaled, FRAME_GENERATION_COUNTER>>
    /\ UNCHANGED <<renderVars, profileVars, workerVars>>
    /\ UNCHANGED <<readerVars, lockVars, paceVars>>

\* --------------------------------------------------- the source drains
\* The drains of the system, HID, mouse and keyboard sources are loops of
\* receives: <Source>Event is an iteration that received an event, EventDone
\* the end of that iteration, <Source>DrainEnds an iteration that received
\* nothing. The file system and D-Bus sources are asked once per tick.

\* `loop_counter > constants::MAX_EVENTS_PER_ITERATION`
CapReached == loop_counter > MAX_EVENTS_PER_ITERATION

\* LeaveDrain with the two values of the pending flag exchanged
LeaveDrainFlagInverted(s, next) ==
    /\ events_pending' = IF s \in DrainedSources
                         THEN [events_pending EXCEPT ![s] = ~CapReached]
                         ELSE events_pending
    /\ loop_counter' = 0
    /\ event_processed' = FALSE
    /\ consumed' = 0
    /\ IF s = "keyboard"
       THEN /\ pc' = "render"
            /\ src' = "system"
       ELSE /\ pc' = "drain"
            /\ src' = next

\* `break '.._EVENTS_LOOP` and return: the pending flag of source s is set, the
\* next source follows, the render step after the keyboard
LeaveDrain(s, next) ==
    /\ events_pending' = IF s \in DrainedSources
                         THEN [events_pending EXCEPT ![s] = CapReached]
                         ELSE events_pending
    /\ loop_counter' = 0
    /\ event_processed' = FALSE
    /\ consumed' = 0
    /\ IF s = "keyboard"
       THEN /\ pc' = "render"
            /\ src' = "system"
       ELSE /\ pc' = "drain"
            /\ src' = next

\* `loop_counter += 1` and the next iteration; the HID drain declares
\* event_processed outside its loop, the others at the head of each iteration
NextIteration ==
    /\ loop_counter' = loop_counter + 1
    /\ event_processed' = (src = "hid" /\ event_processed)
    /\ pc' = "drain"
    /\ UNCHANGED <<src, events_pending, consumed>>

\* NextSource that goes from the HID events straight to the keyboard
NextSourceSkipsMouse(s) ==
    CASE s = "system" -> "filesystem"
      [] s = "filesystem" -> "dbus"
      [] s = "dbus" -> "hid"
      [] s = "hid" -> "keyboard"
      [] s = "mouse" -> "keyboard"
      [] OTHER -> "system"

\* the source that follows s in a tick
NextSource(s) ==
    CASE s = "system" -> "filesystem"
      [] s = "filesystem" -> "dbus"
      [] s = "dbus" -> "hid"
      [] s = "hid" -> "mouse"
      [] s = "mouse" -> "keyboard"
      [] OTHER -> "system"

\* process_system_events: SystemEvent is broadcast without arming a barrier
\* and without a wait
SystemEvent ==
    /\ pc = "drain"
    /\ src = "system"
    /\ StartBroadcast("SystemEvent")
    /\ consumed' = consumed + 1
    /\ UNCHANGED <<src, hid_key, failed_txs, timed_out, QUIT, pending, signaled,
                   FRAME_GENERATION_COUNTER, loop_counter, event_processed,
                   events_pending>>
    /\ UNCHANGED <<renderVars, profileVars, workerVars, eventVars, motionVars>>
    /\ UNCHANGED <<readerVars, lockVars, paceVars>>

\* an iteration of the drain of source s whose receive delivered nothing (a
\* timeout, a spurious None, an error of the HID read): event_processed is
\* false and the loop ends
DrainEnds(s, next) ==
    /\ pc = "drain"
    /\ src = s
    /\ LeaveDrain(s, next)
    /\ UNCHANGED <<bmsg, idx, hid_key, failed_txs, timed_out, QUIT, pending,
                   signaled, FRAME_GENERATION_COUNTER, send_failed, sent>>
    /\ UNCHANGED <<renderVars, profileVars, workerVars, eventVars, motionVars>>
    /\ UNCHANGED <<readerVars, lockVars, paceVars>>

SystemDrainEnds == DrainEnds("system", "filesystem")

\* process_filesystem_events: at most one event, passed on to the D-Bus thread
ProcessFilesystemEvents == DrainEnds("filesystem", "dbus")

\* process_dbus_events, Message::SwitchSlot(slot)
DbusSwitchSlot ==
    /\ pc = "drain"
    /\ src = "dbus"
    /\ \E slot \in SlotCommands : ACTIVE_SLOT' = slot
    /\ failed_txs' = failed_txs_clear
    /\ src' = "hid"
    /\ UNCHANGED <<pc, bmsg, idx, hid_key, timed_out, QUIT, pending, signaled,
                   FRAME_GENERATION_COUNTER, send_failed, saved_slot,
                   ACTIVE_PROFILE, ACTIVE_PROFILE_NAME, LUA_TXS, life_failed,
                   switchVars>>
    /\ UNCHANGED <<renderVars, workerVars, drainVars, eventVars, motionVars, sent>>
    /\ UNCHANGED <<readerVars, lockVars, paceVars>>

\* process_dbus_events, Message::SwitchProfile(profile_path)
DbusSwitchProfile ==
    /\ pc = "drain"
    /\ src = "dbus"
    /\ failed_txs' = failed_txs_clear
    /\ \E profile_path \in Profiles : SwitchOutcome(profile_path, <<>>)
    /\ pc' = "dbus_done"
    /\ UNCHANGED <<src, bmsg, idx, hid_key, timed_out, QUIT, pending, signaled,
                   FRAME_GENERATION_COUNTER, send_failed, saved_slot, ACTIVE_SLOT,
                   ACTIVE_PROFILE_NAME>>
    /\ UNCHANGED <<drainVars, eventVars, sent, mouse_motion_buf, mouse_move_elapsed,
                   motions, burst>>
    /\ UNCHANGED renderVars
    /\ UNCHANGED <<readerVars, lockVars, paceVars>>

\* process_dbus_events returns after the command: the drain of the HID
\* events follows
DbusReturns ==
    /\ pc = "dbus_done"
    /\ pc' = "drain"
    /\ src' = "hid"
    /\ dbus_api_tx' = <<>>
    /\ switch_log' = NoSwitch
    /\ UNCHANGED <<bmsg, idx, hid_key, failed_txs, timed_out, sent>>
    /\ UNCHANGED <<saved_slot, ACTIVE_SLOT, ACTIVE_PROFILE, ACTIVE_PROFILE_NAME,
                   LUA_TXS, life_failed, SLOT_PROFILES>>
    /\ UNCHANGED <<QUIT, pending, signaled, FRAME_GENERATION_COUNTER, send_failed>>
    /\ UNCHANGED <<renderVars, workerVars, drainVars, eventVars, motionVars>>
    /\ UNCHANGED <<readerVars, lockVars, paceVars>>

\* process_dbus_events, no message
DbusDrainEnds == DrainEnds("dbus", "hid")

\* HidKey without the test `index > 0`
HidKeyAnyIndex(e) ==
    IF e.type \in {"KeyDown", "KeyUp"} THEN e.type ELSE "none"

\* the KeyDown/KeyUp a HID event is translated to, when its code maps to a
\* key index > 0
HidKey(e) ==
    IF e.type \in {"KeyDown", "KeyUp"} /\ hid_code_to_key_index(e.code) > 0
    THEN e.type ELSE "none"

\* process_hid_events: a real event; HidEvent is dispatched, then its
\* translation to a key event
HidEvent ==
    /\ pc = "drain"
    /\ src = "hid"
    /\ \E e \in HidEvents :
           /\ event' = e
           /\ hid_key' = HidKey(e)
           /\ barg' = Arg(e.code)
    /\ event_processed' = TRUE
    /\ consumed' = consumed + 1
    /\ StartUpcall("HidEvent")
    /\ UNCHANGED <<src, failed_txs, timed_out, QUIT, signaled,
                   FRAME_GENERATION_COUNTER, loop_counter, events_pending, UINPUT_TX>>
    /\ UNCHANGED <<renderVars, profileVars, workerVars, motionVars>>
    /\ UNCHANGED <<readerVars, lockVars, paceVars>>

\* process_hid_events, `Ok(_) => { /* Ignore unknown events */ }`:
\* event_processed keeps the value an earlier iteration gave it
HidUnknown ==
    /\ pc = "drain"
    /\ src = "hid"
    /\ IF ~event_processed \/ CapReached
       THEN LeaveDrain("hid", "mouse")
       ELSE NextIteration
    /\ UNCHANGED <<bmsg, idx, hid_key, failed_txs, timed_out, QUIT, pending,
                   signaled, FRAME_GENERATION_COUNTER, send_failed, sent>>
    /\ UNCHANGED <<renderVars, profileVars, workerVars, eventVars, motionVars>>
    /\ UNCHANGED <<readerVars, lockVars, paceVars>>

\* process_hid_events, `Err(_e) => { event_processed = false; }`
HidDrainEnds == DrainEnds("hid", "mouse")

\* util::ev_key_to_button_index: the table from a button code to its index
ev_key_to_button_index(code) == code + 1

\* the message a wheel or button event of the mouse is dispatched as
MouseMessage(e) ==
    CASE e.type = "REL_WHEEL" -> "MouseWheelEvent"
      [] e.type = "EV_KEY" /\ e.value > 0 -> "MouseButtonDown"
      [] e.type = "EV_KEY" -> "MouseButtonUp"
      [] OTHER -> "none"

\* the argument of that message: the wheel direction or the button index
MouseArg(e) ==
    IF e.type = "REL_WHEEL"
    THEN Arg(IF e.value > 0 THEN 1 ELSE 2)
    ELSE Arg(ev_key_to_button_index(e.code))

\* process_mouse_events: a wheel event, a button event or an event that is
\* only mirrored
MouseEvent ==
    /\ pc = "drain"
    /\ src = "mouse"
    /\ \E e \in MouseEvents :
           /\ event' = e
           /\ IF MouseMessage(e) # "none"
              THEN /\ StartUpcall(MouseMessage(e))
                   /\ barg' = MouseArg(e)
              ELSE /\ pc' = "event_done"
                   /\ UNCHANGED <<pending, bmsg, idx, send_failed, sent, barg>>
    /\ consumed' = consumed + 1
    /\ UNCHANGED <<src, hid_key, failed_txs, timed_out, QUIT, signaled,
                   FRAME_GENERATION_COUNTER, loop_counter, event_processed,
                   events_pending, UINPUT_TX>>
    /\ UNCHANGED <<renderVars, profileVars, workerVars, motionVars>>
    /\ UNCHANGED <<readerVars, lockVars, paceVars>>

\* the motion buffer after the raw motion event e
Accumulate(buf, e) ==
    [a \in 1 .. 3 |->
        IF (a = 1 /\ e.type = "REL_X") \/ (a = 2 /\ e.type = "REL_Y")
               \/ (a = 3 /\ e.type = "REL_Z")
        THEN buf[a] + e.value ELSE buf[a]]

\* `*mouse_motion_buf != (0, 0, 0) && mouse_move_event_last_dispatched
\*  .elapsed().as_millis() > EVENTS_UPCALL_RATE_LIMIT_MILLIS`
FlushMotion(buf) ==
    /\ buf # <<0, 0, 0>>
    /\ mouse_move_elapsed > EVENTS_UPCALL_RATE_LIMIT_MILLIS

\* process_mouse_events, REL_X / REL_Y / REL_Z: accumulate, and dispatch
\* MouseMove when the rate limit allows it
MouseMotionEvent ==
    /\ pc = "drain"
    /\ src = "mouse"
    /\ motions < MaxMotion
    /\ motions' = motions + 1
    /\ \E e \in MotionEvents :
           /\ event' = e
           /\ owed' = [w \in Workers |-> Accumulate(owed[w], e)]
           /\ mouse_motion_buf' = Accumulate(mouse_motion_buf, e)
           /\ IF FlushMotion(Accumulate(mouse_motion_buf, e))
              THEN /\ mouse_move_elapsed' = 0
                   /\ StartUpcall("MouseMove")
                   /\ burst' = [raw |-> Accumulate(burst.raw, e),
                                upcalls |-> Append(burst.upcalls,
                                                   Accumulate(mouse_motion_buf, e))]
              ELSE /\ pc' = "event_done"
                   /\ burst' = [burst EXCEPT !.raw = Accumulate(burst.raw, e)]
                   /\ UNCHANGED <<pending, bmsg, idx, send_failed, sent,
                                  mouse_move_elapsed>>
    /\ consumed' = consumed + 1
    /\ UNCHANGED <<src, hid_key, failed_txs, timed_out, QUIT, signaled,
                   FRAME_GENERATION_COUNTER, loop_counter, event_processed,
                   events_pending, barg, UINPUT_TX>>
    /\ UNCHANGED <<renderVars, profileVars, workerVars>>
    /\ UNCHANGED <<readerVars, lockVars, paceVars>>

\* mouse_rx.recv_timeout(..) returns Err(Timeout): the channel is empty and
\* its sender is still held
MouseDrainEnds == mouse_tx /\ DrainEnds("mouse", "keyboard")

\* NotRepetition with `<= 2` written for `< 2`
NotRepetitionOrTwo(e) == e.value <= 2

\* `if raw_event.value < 2`: the event is no key repetition
NotRepetition(e) == e.value < 2

\* KeyMessage with the two messages exchanged
KeyMessageInverted(e) == IF e.value > 0 THEN "KeyUp" ELSE "KeyDown"

\* `let is_pressed = raw_event.value > 0; if is_pressed { KeyDown } else { KeyUp }`
KeyMessage(e) == IF e.value > 0 THEN "KeyDown" ELSE "KeyUp"

\* process_keyboard_events: repetitions (value >= 2) are ignored; an EV_KEY
\* event is dispatched as KeyDown (value > 0) or KeyUp with its key index
KeyboardEvent ==
    /\ pc = "drain"
    /\ src = "keyboard"
    /\ \E e \in KeyboardEvents :
           /\ event' = e
           /\ IF NotRepetition(e) /\ e.type = "EV_KEY"
              THEN /\ StartUpcall(KeyMessage(e))
                   /\ barg' = Arg(ev_key_to_key_index(e.code))
              ELSE /\ pc' = "event_done"
                   /\ UNCHANGED <<pending, bmsg, idx, send_failed, sent, barg>>
    /\ consumed' = consumed + 1
    /\ UNCHANGED <<src, hid_key, failed_txs, timed_out, QUIT, signaled,
                   FRAME_GENERATION_COUNTER, loop_counter, event_processed,
                   events_pending, UINPUT_TX>>
    /\ UNCHANGED <<renderVars, profileVars, workerVars, motionVars>>
    /\ UNCHANGED <<readerVars, lockVars, paceVars>>

\* kbd_rx.recv_timeout(..) returns Err(Timeout): the channel is empty and
\* its sender is still held
KeyboardDrainEnds == kbd_tx /\ DrainEnds("keyboard", "system")

\* MirrorEvent with a mouse drain that mirrors pointer motion as well
MirrorEventMotionToo ==
    \/ src = "keyboard" /\ NotRepetition(event)
    \/ src = "mouse"

\* `if mirror_event` of the mouse drain, `if raw_event.value < 2` of the
\* keyboard drain: the raw event is sent to the virtual-input thread
MirrorEvent ==
    \/ src = "keyboard" /\ NotRepetition(event)
    \/ src = "mouse" /\ event.type \notin {"REL_X", "REL_Y", "REL_Z"}

\* the tail of an iteration that processed an event: the raw event is sent on
\* UINPUT_TX when it is to be mirrored, and `event_processed = true`
EventDone ==
    /\ pc = "event_done"
    /\ UINPUT_TX' = IF MirrorEvent THEN <<event>> ELSE <<>>
    /\ event_processed' = TRUE
    /\ pc' = "iteration_end"
    /\ UNCHANGED <<src, bmsg, idx, hid_key, failed_txs, timed_out, QUIT, pending,
                   signaled, FRAME_GENERATION_COUNTER, send_failed, sent, event,
                   barg, loop_counter, events_pending, consumed>>
    /\ UNCHANGED <<renderVars, profileVars, workerVars, motionVars>>
    /\ UNCHANGED <<readerVars, lockVars, paceVars>>

\* `if !event_processed || loop_counter > constants::MAX_EVENTS_PER_ITERATION
\*  { break; }  loop_counter += 1;` after an event was processed
IterationEnds ==
    /\ pc = "iteration_end"
    /\ IF CapReached
       THEN LeaveDrain(src, NextSource(src))
       ELSE NextIteration
    /\ event' = NoEvent
    /\ barg' = Arg(0)
    /\ sent' = <<>>
    /\ UINPUT_TX' = <<>>
    /\ UNCHANGED <<bmsg, idx, hid_key, failed_txs, timed_out, QUIT, pending,
                   signaled, FRAME_GENERATION_COUNTER, send_failed>>
    /\ UNCHANGED <<renderVars, profileVars, workerVars, motionVars>>
    /\ UNCHANGED <<readerVars, lockVars, paceVars>>

\* ---------------------------------------------------- the render pass
\* RenderNeeded with `<=` written for `<`
RenderNeededOrEqual(cur_gen) == saved_frame_generation <= cur_gen

\* `saved_frame_generation.load(..) < current_frame_generation`, with the
\* counter value cur_gen read in this tick
RenderNeeded(cur_gen) == saved_frame_generation < cur_gen

\* the Tick broadcast that follows the render step
StartTick == StartBroadcast("Tick")

\* read the frame generation counter; if a worker submitted a new color map,
\* clear the canvas and arm COLOR_MAPS_READY_CONDITION. The pending flags of
\* the drains are not read after process_keyboard_events has returned.
RenderBegin ==
    /\ pc = "render"
    /\ events_pending' = [s \in DrainedSources |-> FALSE]
    /\ UNCHANGED <<loop_counter, event_processed, consumed, eventVars, motionVars>>
    /\ IF RenderNeeded(FRAME_GENERATION_COUNTER)
       THEN /\ current_frame_generation' = FRAME_GENERATION_COUNTER
            /\ drop_frame' = FALSE
            /\ LED_MAP' = <<>>
            /\ pending' = Arm("RealizeColorMap")
            /\ idx' = 0
            /\ send_failed' = {}
            /\ sent' = <<>>
            /\ pc' = "render_loop"
            /\ UNCHANGED bmsg
       ELSE /\ StartTick
            /\ UNCHANGED <<current_frame_generation, drop_frame, LED_MAP, pending>>
    /\ UNCHANGED <<src, hid_key, failed_txs, timed_out, QUIT, signaled,
                   FRAME_GENERATION_COUNTER, saved_frame_generation, device>>
    /\ UNCHANGED <<profileVars, workerVars>>
    /\ UNCHANGED <<readerVars, lockVars, paceVars>>

\* loop body for a live index: lock the counter, send RealizeColorMap (a send
\* error inserts the index into failed_txs), then wait_for on the condvar
RenderSend ==
    /\ pc = "render_loop"
    /\ idx < LUA_TXS
    /\ idx \notin failed_txs
    /\ Send("RealizeColorMap", idx)
    /\ signaled' = FALSE
    /\ pc' = "render_parked"
    /\ UNCHANGED <<src, bmsg, idx, hid_key, timed_out, QUIT, pending,
                   FRAME_GENERATION_COUNTER, alive, cur, saved_slot, ACTIVE_SLOT,
                   ACTIVE_PROFILE, ACTIVE_PROFILE_NAME, LUA_TXS,
                   switchVars>>
    /\ UNCHANGED renderVars
    /\ UNCHANGED <<drainVars, eventVars, mouse_motion_buf, mouse_move_elapsed,
                   motions, burst>>
    /\ UNCHANGED <<readerVars, lockVars, paceVars>>

\* loop body for an index of failed_txs: `else { drop_frame = true; }`
RenderSkipFailed ==
    /\ pc = "render_loop"
    /\ idx < LUA_TXS
    /\ idx \in failed_txs
    /\ drop_frame' = TRUE
    /\ idx' = idx + 1
    /\ UNCHANGED <<pc, src, bmsg, hid_key, failed_txs, timed_out, QUIT, pending,
                   signaled, FRAME_GENERATION_COUNTER, send_failed,
                   saved_frame_generation, current_frame_generation, LED_MAP, device>>
    /\ UNCHANGED <<profileVars, workerVars>>
    /\ UNCHANGED <<drainVars, eventVars, motionVars, sent>>
    /\ UNCHANGED <<readerVars, lockVars, paceVars>>

\* the loop over LUA_TXS has ended
RenderLoopEnd ==
    /\ pc = "render_loop"
    /\ idx >= LUA_TXS
    /\ pc' = "render_push"
    /\ UNCHANGED <<src, bmsg, idx, hid_key, failed_txs, timed_out, QUIT, pending,
                   signaled, FRAME_GENERATION_COUNTER, send_failed>>
    /\ UNCHANGED <<renderVars, profileVars, workerVars>>
    /\ UNCHANGED <<drainVars, eventVars, motionVars, sent>>
    /\ UNCHANGED <<readerVars, lockVars, paceVars>>

\* wait_for returned because a worker notified: go on with the next index
RenderNotified ==
    /\ pc = "render_parked"
    /\ signaled
    /\ signaled' = FALSE
    /\ timed_out' = FALSE
    /\ idx' = idx + 1
    /\ pc' = "render_loop"
    /\ UNCHANGED <<src, bmsg, hid_key, failed_txs, QUIT, pending,
                   FRAME_GENERATION_COUNTER, send_failed>>
    /\ UNCHANGED <<renderVars, profileVars, workerVars>>
    /\ UNCHANGED <<drainVars, eventVars, motionVars, sent>>
    /\ UNCHANGED <<readerVars, lockVars, paceVars>>

\* RenderTimeout without its `break`: the loop goes on with the next index
RenderTimeoutNoBreak ==
    /\ pc = "render_parked"
    /\ ~signaled
    /\ timed_out' = TRUE
    /\ drop_frame' = TRUE
    /\ idx' = idx + 1
    /\ pc' = "render_loop"
    /\ UNCHANGED <<src, bmsg, hid_key, failed_txs, QUIT, pending, signaled,
                   FRAME_GENERATION_COUNTER, send_failed, saved_frame_generation,
                   current_frame_generation, LED_MAP, device>>
    /\ UNCHANGED <<profileVars, workerVars>>
    /\ UNCHANGED <<drainVars, eventVars, motionVars, sent>>
    /\ UNCHANGED <<readerVars, lockVars, paceVars>>

\* wait_for returned by timeout: `drop_frame = true; break;`
RenderTimeout ==
    /\ pc = "render_parked"
    /\ ~signaled
    /\ timed_out' = TRUE
    /\ drop_frame' = TRUE
    /\ pc' = "render_push"
    /\ UNCHANGED <<src, bmsg, idx, hid_key, failed_txs, QUIT, pending, signaled,
                   FRAME_GENERATION_COUNTER, send_failed, saved_frame_generation,
                   current_frame_generation, LED_MAP, device>>
    /\ UNCHANGED <<profileVars, workerVars>>
    /\ UNCHANGED <<drainVars, eventVars, motionVars, sent>>
    /\ UNCHANGED <<readerVars, lockVars, paceVars>>

\* `if !drop_frame`: write the canvas to the device when hwdevice.try_write()
\* gets the lock, and store the generation read in this tick; then the Tick
\* broadcast starts
RenderPush ==
    /\ pc = "render_push"
    /\ IF ~drop_frame
       THEN /\ \E locked \in BOOLEAN :
                   device' = IF locked THEN LedFrame(current_frame_generation)
                                       ELSE device
            /\ saved_frame_generation' = current_frame_generation
       ELSE UNCHANGED <<device, saved_frame_generation>>
    /\ drop_frame' = FALSE
    /\ timed_out' = FALSE
    /\ current_frame_generation' = 0
    /\ LED_MAP' = <<>>
    /\ StartTick
    /\ UNCHANGED <<src, hid_key, failed_txs, QUIT, pending, signaled,
                   FRAME_GENERATION_COUNTER>>
    /\ UNCHANGED <<profileVars, workerVars>>
    /\ UNCHANGED <<drainVars, eventVars, motionVars>>
    /\ UNCHANGED <<readerVars, lockVars, paceVars>>

\* ------------------------------------------- leaving the loop, shutdown
\* `if QUIT.load(..) { break 'MAIN_LOOP; }`; main then arms
\* UPCALL_COMPLETED_ON_QUIT to LUA_TXS.len() and sends Quit(0) to every sender
QuitCheck ==
    /\ pc = "quit_check"
    /\ IF QUIT
       THEN /\ failed_txs' = {}
            /\ pending' = [pending EXCEPT !["Quit"] = LUA_TXS]
            /\ StartBroadcast("Quit")
       ELSE /\ pc' = "slot"
            /\ UNCHANGED <<failed_txs, pending, bmsg, idx, send_failed, sent>>
    /\ UNCHANGED <<drainVars, eventVars, motionVars>>
    /\ UNCHANGED <<src, hid_key, timed_out, QUIT, signaled, FRAME_GENERATION_COUNTER>>
    /\ UNCHANGED <<renderVars, profileVars, workerVars>>
    /\ UNCHANGED <<readerVars, lockVars, paceVars>>

\* QuitLoopEnds without the test of the timeout
QuitLoopEndsOnZero == pending["Quit"] = 0

\* the exit tests of the Quit wait loop: a timeout, or no pending worker
QuitLoopEnds == timed_out \/ pending["Quit"] = 0

\* after wait_for of UPCALL_COMPLETED_ON_QUIT
QuitWaitCheck ==
    /\ pc = "check"
    /\ bmsg = "Quit"
    /\ pc' = IF QuitLoopEnds THEN "shutdown" ELSE "wait"
    /\ timed_out' = FALSE
    /\ UNCHANGED <<src, bmsg, idx, hid_key, failed_txs, QUIT, pending, signaled,
                   FRAME_GENERATION_COUNTER, send_failed>>
    /\ UNCHANGED <<renderVars, profileVars, workerVars>>
    /\ UNCHANGED <<drainVars, eventVars, motionVars, sent>>
    /\ UNCHANGED <<readerVars, lockVars, paceVars>>

\* store the plugin state (`?` returns from main when it fails), set the LED
\* off pattern, close the devices
Shutdown ==
    /\ pc = "shutdown"
    /\ \E stored \in BOOLEAN :
           device' = IF stored THEN LedOffPattern ELSE device
    /\ pc' = "exited"
    /\ bmsg' = "none"
    /\ UNCHANGED <<src, idx, hid_key, failed_txs, timed_out, QUIT, pending, signaled,
                   FRAME_GENERATION_COUNTER, send_failed, saved_frame_generation,
                   current_frame_generation, drop_frame, LED_MAP>>
    /\ UNCHANGED <<profileVars, workerVars>>
    /\ UNCHANGED <<drainVars, eventVars, motionVars, sent>>
    /\ UNCHANGED <<readerVars, lockVars, paceVars>>

\* ------------------------------------------------------ other threads
\* all variables but those of the reader threads' senders and of the main
\* thread's mutexes
mainVars ==
    <<pc, src, bmsg, idx, hid_key, failed_txs, timed_out, QUIT, pending, signaled,
      FRAME_GENERATION_COUNTER, send_failed, sent, renderVars, profileVars,
      workerVars, drainVars, eventVars, motionVars>>

\* the keyboard reader thread finds QUIT set at the head of its loop and
\* ends: kbd_tx is dropped
KeyboardReaderExits ==
    /\ QUIT
    /\ kbd_tx
    /\ kbd_tx' = FALSE
    /\ UNCHANGED <<mouse_tx, mainVars, lockVars, paceVars>>

\* the mouse reader thread finds QUIT set at the head of its loop and ends:
\* mouse_tx is dropped
MouseReaderExits ==
    /\ QUIT
    /\ mouse_tx
    /\ mouse_tx' = FALSE
    /\ UNCHANGED <<kbd_tx, mainVars, lockVars, paceVars>>

\* mouse_rx.recv_timeout(..) returns Err(Disconnected), the channel being
\* empty and its sender dropped: `Err(e) => { error!(..); panic!() }`
MouseDisconnected ==
    /\ pc = "drain"
    /\ src = "mouse"
    /\ ~mouse_tx
    /\ pc' = "panicked"
    /\ UNCHANGED <<src, bmsg, idx, hid_key, failed_txs, timed_out, QUIT, pending,
                   signaled, FRAME_GENERATION_COUNTER, send_failed, sent>>
    /\ UNCHANGED <<renderVars, profileVars, workerVars, drainVars, eventVars,
                   motionVars, readerVars, lockVars, paceVars>>

\* kbd_rx.recv_timeout(..) returns Err(Disconnected), the channel being empty
\* and its sender dropped: `Err(e) => { error!(..); panic!() }`
KeyboardDisconnected ==
    /\ pc = "drain"
    /\ src = "keyboard"
    /\ ~kbd_tx
    /\ pc' = "panicked"
    /\ UNCHANGED <<src, bmsg, idx, hid_key, failed_txs, timed_out, QUIT, pending,
                   signaled, FRAME_GENERATION_COUNTER, send_failed, sent>>
    /\ UNCHANGED <<renderVars, profileVars, workerVars, drainVars, eventVars,
                   motionVars, readerVars, lockVars, paceVars>>

\* the ctrl-c handler stores true into QUIT
SetQuit ==
    /\ ~QUIT
    /\ pc \notin {"exited", "panicked"}
    /\ QUIT' = TRUE
    /\ UNCHANGED <<pc, src, bmsg, idx, hid_key, failed_txs, timed_out, pending,
                   signaled, FRAME_GENERATION_COUNTER, send_failed, saved_slot,
                   ACTIVE_SLOT, ACTIVE_PROFILE, ACTIVE_PROFILE_NAME, LUA_TXS,
                   life_failed, switchVars>>
    /\ UNCHANGED <<renderVars, workerVars>>
    /\ UNCHANGED <<drainVars, eventVars, motionVars, sent>>
    /\ UNCHANGED <<readerVars, lockVars, paceVars>>

\* another thread stores a profile name into ACTIVE_PROFILE_NAME
RequestProfileName ==
    /\ ACTIVE_PROFILE_NAME = NoProfile
    /\ pc \notin {"exited", "panicked"}
    /\ \E name \in Profiles : ACTIVE_PROFILE_NAME' = name
    /\ UNCHANGED <<pc, src, bmsg, idx, hid_key, failed_txs, timed_out, pending,
                   signaled, FRAME_GENERATION_COUNTER, send_failed, saved_slot,
                   ACTIVE_SLOT, ACTIVE_PROFILE, QUIT, LUA_TXS, life_failed,
                   switchVars>>
    /\ UNCHANGED <<renderVars, workerVars>>
    /\ UNCHANGED <<drainVars, eventVars, motionVars, sent>>
    /\ UNCHANGED <<readerVars, lockVars, paceVars>>

\* time passes: a millisecond more since the last MouseMove dispatch
TimePasses ==
    /\ pc \notin {"exited", "panicked"}
    /\ \/ mouse_move_elapsed <= EVENTS_UPCALL_RATE_LIMIT_MILLIS
       \/ burst # [raw |-> <<0, 0, 0>>, upcalls |-> <<>>]
    /\ Elapse
    /\ UNCHANGED <<pc, src, bmsg, idx, hid_key, failed_txs, timed_out, QUIT, pending,
                   signaled, FRAME_GENERATION_COUNTER, send_failed, sent,
                   mouse_motion_buf, motions, owed>>
    /\ UNCHANGED <<renderVars, profileVars, workerVars, drainVars, eventVars>>
    /\ UNCHANGED <<readerVars, lockVars, paceVars>>

\* ------------------------------------------------------------- workers
\* a worker takes the next message of its channel and starts its handler
WorkerReceive(w) ==
    /\ alive[w]
    /\ cur[w] = "idle"
    /\ queue[w] # <<>>
    /\ queue' = [queue EXCEPT ![w] = Tail(@)]
    /\ cur' = [cur EXCEPT ![w] = Head(queue[w])]
    /\ UNCHANGED <<pc, src, bmsg, idx, hid_key, failed_txs, timed_out, QUIT, pending,
                   signaled, FRAME_GENERATION_COUNTER, send_failed, alive>>
    /\ UNCHANGED <<renderVars, profileVars>>
    /\ UNCHANGED <<drainVars, eventVars, motionVars, sent>>
    /\ UNCHANGED <<readerVars, lockVars, paceVars>>

\* a worker ends the handler of its message: RealizeColorMap blends the local
\* color map into the canvas; the barrier of the message is decremented and
\* its condvar notified; Quit ends the worker
WorkerComplete(w) ==
    /\ alive[w]
    /\ cur[w] # "idle"
    /\ LED_MAP' = IF /\ cur[w] = "RealizeColorMap"
                     /\ InRenderPass
                     /\ Len(LED_MAP) <= LUA_TXS
                  THEN Append(LED_MAP, w) ELSE LED_MAP
    /\ pending' = Decrement(cur[w])
    /\ signaled' = (signaled \/ ParkedOn(cur[w]))
    /\ cur' = [cur EXCEPT ![w] = "idle"]
    /\ alive' = [alive EXCEPT ![w] = (cur[w] # "Quit")]
    /\ queue' = [queue EXCEPT ![w] = IF cur[w] = "Quit" THEN <<>> ELSE @]
    /\ UNCHANGED <<pc, src, bmsg, idx, hid_key, failed_txs, timed_out, QUIT,
                   FRAME_GENERATION_COUNTER, send_failed, saved_frame_generation,
                   current_frame_generation, drop_frame, device>>
    /\ UNCHANGED profileVars
    /\ UNCHANGED <<drainVars, eventVars, motionVars, sent>>
    /\ UNCHANGED <<readerVars, lockVars, paceVars>>

\* a worker's script submits a new color map: the frame generation advances
WorkerSubmit(w) ==
    /\ alive[w]
    /\ FRAME_GENERATION_COUNTER < MaxGen
    /\ FRAME_GENERATION_COUNTER' = FRAME_GENERATION_COUNTER + 1
    /\ UNCHANGED <<pc, src, bmsg, idx, hid_key, failed_txs, timed_out, QUIT, pending,
                   signaled, send_failed>>
    /\ UNCHANGED <<renderVars, profileVars, workerVars>>
    /\ UNCHANGED <<drainVars, eventVars, motionVars, sent>>
    /\ UNCHANGED <<readerVars, lockVars, paceVars>>

\* the script runtime reports an error: the worker terminates, its receiver
\* is dropped with the messages still queued
WorkerTerminate(w) ==
    /\ alive[w]
    /\ alive' = [alive EXCEPT ![w] = FALSE]
    /\ queue' = [queue EXCEPT ![w] = <<>>]
    /\ cur' = [cur EXCEPT ![w] = "idle"]
    /\ UNCHANGED <<pc, src, bmsg, idx, hid_key, failed_txs, timed_out, QUIT, pending,
                   signaled, FRAME_GENERATION_COUNTER, send_failed>>
    /\ UNCHANGED <<renderVars, profileVars>>
    /\ UNCHANGED <<drainVars, eventVars, motionVars, sent>>
    /\ UNCHANGED <<readerVars, lockVars, paceVars>>

\* ------------------------------------------- the main thread's mutexes
\* The lock operations of the main thread, in the order in which the code
\* of a handler performs them. A guard that is a temporary of a statement is
\* released at the end of that statement, the guard of a `for` or `if let`
\* head at the end of the loop or block, a `let` binding at the end of its
\* scope. The mutex of a barrier is named by the barrier's message kind.
Lock(m) == [op |-> "lock", m |-> m]

Unlock(m) == [op |-> "unlock", m |-> m]

\* a statement that locks m and nothing else
LeafLock(m) == <<Lock(m), Unlock(m)>>

RECURSIVE Repeat(_, _)
\* ops, n times
Repeat(ops, n) == IF n = 0 THEN <<>> ELSE ops \o Repeat(ops, n - 1)

\* switch_profile: CONFIG twice for the directories; past the pre-flight
\* check `let mut lua_txs = LUA_TXS.lock()` is held to the end of the
\* function, over `*ACTIVE_PROFILE.lock() = ..` and
\* `let mut slot_profiles = SLOT_PROFILES.lock()`
switch_profile_locks(res) ==
    LeafLock("CONFIG") \o LeafLock("CONFIG")
        \o (IF SwitchProceeds(res)
            THEN <<Lock("LUA_TXS"), Lock("ACTIVE_PROFILE"), Unlock("ACTIVE_PROFILE"),
                   Lock("SLOT_PROFILES"), Unlock("SLOT_PROFILES"), Unlock("LUA_TXS")>>
            ELSE <<>>)

\* slot changed? `ACTIVE_PROFILE.lock().is_none()`, the block that clones the
\* slot's profile path, switch_profile
SlotChangedLocks(res) ==
    LeafLock("ACTIVE_PROFILE") \o LeafLock("SLOT_PROFILES") \o switch_profile_locks(res)

\* active profile name changed? The guard of
\* `if let Some(active_profile) = &*ACTIVE_PROFILE_NAME.lock()` lives to the
\* end of the block; `*ACTIVE_PROFILE_NAME.lock() = None` follows. res is
\* "none" when no name is pending.
ProfileNameLocks(res) ==
    <<Lock("ACTIVE_PROFILE_NAME")>>
        \o (IF res = "none" THEN <<>> ELSE switch_profile_locks(res))
        \o <<Unlock("ACTIVE_PROFILE_NAME")>>
        \o LeafLock("ACTIVE_PROFILE_NAME")

\* `*BARRIER.0.lock() = LUA_TXS.lock().len() - failed_txs.len()`: the value
\* is evaluated first and its guard lives to the end of the statement
ArmLocks(k) == <<Lock("LUA_TXS"), Lock(k), Unlock(k), Unlock("LUA_TXS")>>

\* one `let mut pending = BARRIER.0.lock(); BARRIER.1.wait_for(&mut pending, ..)`:
\* the wait releases the mutex and takes it again
WaitLocks(k) == <<Lock(k), Unlock(k), Lock(k), Unlock(k)>>

\* an input event of kind k: arm, the send loop under the guard of
\* `LUA_TXS.lock().iter()`, then n rounds of the wait loop
UpcallLocks(k, n) ==
    ArmLocks(k) \o LeafLock("LUA_TXS") \o Repeat(WaitLocks(k), n)

\* the render pass with n workers sent to: arm, then the loop under the
\* guard of LUA_TXS with one wait per worker, then the read of the counter
RenderLocks(n) ==
    ArmLocks("RealizeColorMap")
        \o <<Lock("LUA_TXS")>>
        \o Repeat(WaitLocks("RealizeColorMap"), n)
        \o <<Unlock("LUA_TXS")>>
        \o LeafLock("RealizeColorMap")

\* the Tick and SystemEvent broadcasts
BroadcastLocks == LeafLock("LUA_TXS")

\* main after the loop: arm the Quit barrier, send, n rounds of the wait loop
QuitLocks(n) ==
    ArmLocks("Quit") \o LeafLock("LUA_TXS") \o Repeat(WaitLocks("Quit"), n)

\* the lock paths of the code the main thread runs
MainLockPaths ==
    {SlotChangedLocks(res) : res \in SwitchResults}
        \cup {ProfileNameLocks(res) : res \in SwitchResults \cup {"none"}}
        \cup {switch_profile_locks(res) : res \in SwitchResults}
        \cup {UpcallLocks(k, n) : k \in InputKinds, n \in 1 .. MaxWorkers}
        \cup {RenderLocks(n) : n \in 0 .. MaxWorkers}
        \cup {BroadcastLocks}
        \cup {QuitLocks(n) : n \in 1 .. MaxWorkers}

\* the mutexes h without m, which is among them
Release(h, m) ==
    [i \in 1 .. (Len(h) - 1) |->
        IF i < (CHOOSE j \in DOMAIN h : h[j] = m) THEN h[i] ELSE h[i + 1]]

\* the main thread enters one of its pieces of code
LockBegin ==
    /\ lock_path = <<>>
    /\ \E p \in MainLockPaths : lock_path' = p
    /\ UNCHANGED <<held, mainVars, readerVars, paceVars>>

\* the main thread does the next lock or unlock of the code it runs
LockStep ==
    /\ lock_path # <<>>
    /\ held' = IF Head(lock_path).op = "lock"
               THEN Append(held, Head(lock_path).m)
               ELSE Release(held, Head(lock_path).m)
    /\ lock_path' = Tail(lock_path)
    /\ UNCHANGED <<mainVars, readerVars, paceVars>>

LockSteps ==
    \/ LockBegin
    \/ LockStep

\* ------------------------------------------- the pace of the main loop
\* u64::saturating_sub
saturating_sub(a, b) == IF a > b THEN a - b ELSE 0

\* u64::min
min(a, b) == IF a < b THEN a ELSE b

\* the timeout of kbd_rx.recv_timeout, computed at the head of every iteration
\* of the keyboard drain from the three flags passed in, the drain's own flag
\* and start_time.elapsed()
sleep_millis(hid, mouse, system, keyboard, elapsed) ==
    IF hid \/ mouse \/ system \/ keyboard
    THEN 0
    ELSE min(saturating_sub(MAIN_LOOP_DELAY_MILLIS,
                            elapsed + MAIN_LOOP_DELAY_OFFSET_MILLIS),
             MAIN_LOOP_DELAY_MILLIS)

\* the time on the clock when `by` more milliseconds have passed, as far as
\* the model follows it
Later(elapsed, by) == min(elapsed + by, MaxElapsed)

\* process_keyboard_events is called with the flags the HID, mouse and system
\* drains returned, some time after start_time
PaceCall ==
    /\ pace.at = "idle"
    /\ \E hid \in BOOLEAN, mouse \in BOOLEAN, system \in BOOLEAN,
          elapsed \in 0 .. MaxElapsed :
           pace' = [NoCall EXCEPT !.at = "head",
                                  !.hid_events_pending = hid,
                                  !.mouse_events_pending = mouse,
                                  !.system_events_pending = system,
                                  !.elapsed = elapsed]
    /\ UNCHANGED <<mainVars, readerVars, lockVars>>

\* the head of an iteration of 'KEYBOARD_EVENTS_LOOP: the timeout is computed
PaceHead ==
    /\ pace.at = "head"
    /\ pace' = [pace EXCEPT !.at = "recv",
                            !.sleep_millis =
                                sleep_millis(pace.hid_events_pending,
                                             pace.mouse_events_pending,
                                             pace.system_events_pending,
                                             pace.keyboard_events_pending,
                                             pace.elapsed)]
    /\ UNCHANGED <<mainVars, readerVars, lockVars>>

\* the rest of the iteration once recv_timeout has returned, with an event
\* (after at most sleep_millis, and the event's processing takes `took`) or
\* with a timeout (after sleep_millis): leave the loop with the flag set if
\* the cap is reached, leave it with the flag cleared if nothing was received,
\* count and go on otherwise
PaceRecv ==
    /\ pace.at = "recv"
    /\ \E received \in BOOLEAN, took \in 0 .. 1 :
         LET waited == IF received THEN took ELSE pace.sleep_millis
             cap == pace.loop_counter > MAX_EVENTS_PER_ITERATION
         IN  pace' =
                 IF ~received \/ cap
                 THEN [pace EXCEPT !.at = "returned",
                                   !.keyboard_events_pending = cap,
                                   !.elapsed = Later(pace.elapsed, waited)]
                 ELSE [pace EXCEPT !.at = "head",
                                   !.loop_counter = pace.loop_counter + 1,
                                   !.elapsed = Later(pace.elapsed, waited)]
    /\ UNCHANGED <<mainVars, readerVars, lockVars>>

\* back in the main loop: the value the call returned is not bound
PaceReturn ==
    /\ pace.at = "returned"
    /\ pace' = NoCall
    /\ UNCHANGED <<mainVars, readerVars, lockVars>>

PaceSteps == PaceCall \/ PaceHead \/ PaceRecv \/ PaceReturn

\* ---------------------------------------------------------------- Next
\* the main loop's head and the end of every drain
LoopSteps ==
    \/ SlotChanged
    \/ ProfileNameChanged
    \/ ProfileNameReset
    \/ SystemDrainEnds
    \/ ProcessFilesystemEvents
    \/ DbusDrainEnds
    \/ HidDrainEnds
    \/ MouseDrainEnds
    \/ KeyboardDrainEnds
    \/ Broadcast
    \/ RenderBegin
    \/ QuitCheck

\* the commands of the D-Bus thread
DbusSteps ==
    \/ DbusSwitchSlot
    \/ DbusSwitchProfile
    \/ DbusReturns

\* events of the input sources, the upcall wait loops
EventSteps ==
    \/ SystemEvent
    \/ HidEvent
    \/ MouseEvent
    \/ KeyboardEvent
    \/ HidUnknown
    \/ EventDone
    \/ IterationEnds
    \/ WaitFor
    \/ WaitNotified
    \/ WaitTimeout
    \/ UpcallCheck

\* the render pass
RenderSteps ==
    \/ RenderSend
    \/ RenderSkipFailed
    \/ RenderLoopEnd
    \/ RenderNotified
    \/ RenderTimeout
    \/ RenderPush

\* ctrl-c and what main does after the loop
QuitSteps ==
    \/ SetQuit
    \/ QuitWaitCheck
    \/ Shutdown

\* the end of the input reader threads and what the drains make of it
ReaderSteps ==
    \/ KeyboardReaderExits
    \/ MouseReaderExits
    \/ MouseDisconnected
    \/ KeyboardDisconnected

WorkerSteps ==
    \/ \E w \in Workers : WorkerReceive(w)
    \/ \E w \in Workers : WorkerComplete(w)
    \/ \E w \in Workers : WorkerTerminate(w)

\* pointer motion and the passing of time
MotionSteps ==
    \/ MouseMotionEvent
    \/ TimePasses

Next ==
    \/ LoopSteps
    \/ EventSteps
    \/ DbusSteps
    \/ MotionSteps
    \/ RenderSteps
    \/ QuitSteps
    \/ ReaderSteps
    \/ LockSteps
    \/ PaceSteps
    \/ RequestProfileName
    \/ WorkerSteps
    \/ \E w \in Workers : WorkerSubmit(w)

Spec == Init /\ [][Next]_vars

\* The behaviours of Spec in which no script submits a color map and no
\* D-Bus command arrives: events, the Tick broadcast and the shutdown.
NextEvents ==
    \/ LoopSteps
    \/ EventSteps
    \/ QuitSteps
    \/ WorkerSteps

SpecEvents == Init /\ [][NextEvents]_vars

\* The behaviours of Spec in which the sources deliver no event and nobody
\* asks to quit: profile load, render passes and the Tick broadcast.
NextRender ==
    \/ LoopSteps
    \/ RenderSteps
    \/ WorkerSteps
    \/ \E w \in Workers : WorkerSubmit(w)

SpecRender == Init /\ [][NextRender]_vars

\* The behaviours of Spec in which the only events are pointer motion:
\* profile load, the mouse drain, the MouseMove upcalls and the Tick broadcast.
NextMotion ==
    \/ LoopSteps
    \/ MotionSteps
    \/ EventDone
    \/ IterationEnds
    \/ WaitFor
    \/ WaitNotified
    \/ WaitTimeout
    \/ UpcallCheck
    \/ WorkerSteps

SpecMotion == Init /\ [][NextMotion]_vars

\* the wait loop of an input event's barrier
WaitSteps ==
    \/ WaitFor
    \/ WaitNotified
    \/ WaitTimeout
    \/ UpcallCheck

\* The behaviours of Spec in which the only events are those of the mouse:
\* pointer motion, wheel and buttons, and in which no wait runs into its
\* timeout: pointer motion arrives within the rate limit of MouseMove.
NextMouse ==
    \/ LoopSteps
    \/ MouseEvent
    \/ MouseMotionEvent
    \/ EventDone
    \/ IterationEnds
    \/ WaitFor
    \/ WaitNotified
    \/ UpcallCheck
    \/ WorkerSteps

SpecMouse == Init /\ [][NextMouse]_vars

\* The behaviours of Spec in which the only events are those of the keyboard.
NextKeyboard ==
    \/ LoopSteps
    \/ KeyboardEvent
    \/ EventDone
    \/ IterationEnds
    \/ WaitSteps
    \/ WorkerSteps

SpecKeyboard == Init /\ [][NextKeyboard]_vars

\* The behaviours of Spec in which the only events are those of the HID layer.
NextHid ==
    \/ LoopSteps
    \/ HidEvent
    \/ HidUnknown
    \/ EventDone
    \/ IterationEnds
    \/ WaitSteps
    \/ WorkerSteps

SpecHid == Init /\ [][NextHid]_vars

\* The behaviours of Spec in which the four drained sources deliver events
\* and nothing else happens: no D-Bus command, no color map, no ctrl-c.
NextDrains ==
    \/ LoopSteps
    \/ SystemEvent
    \/ HidEvent
    \/ HidUnknown
    \/ MouseEvent
    \/ KeyboardEvent
    \/ EventDone
    \/ IterationEnds
    \/ WaitSteps
    \/ WorkerSteps

SpecDrains == Init /\ [][NextDrains]_vars

\* The behaviours of Spec in which the sources deliver no event: profile
\* load, the D-Bus commands, profile names stored by other threads, the Tick
\* broadcast. A worker that does not run is one whose thread could not be
\* spawned.
NextProfile ==
    \/ LoopSteps
    \/ DbusSteps
    \/ RequestProfileName

SpecProfile == Init /\ [][NextProfile]_vars

\* The behaviours of Spec with profiles switched over D-Bus and keyboard
\* events: the key barriers are armed for worker maps of changing length.
NextArms ==
    \/ LoopSteps
    \/ DbusSwitchProfile
    \/ DbusReturns
    \/ KeyboardEvent
    \/ EventDone
    \/ IterationEnds
    \/ WaitSteps
    \/ WorkerSteps

SpecArms == Init /\ [][NextArms]_vars

\* the steps of the main thread, which is never suspended for good
MainSteps ==
    \/ LoopSteps
    \/ EventDone
    \/ IterationEnds
    \/ WaitSteps
    \/ QuitWaitCheck
    \/ Shutdown

\* The behaviours of Spec with keyboard events and ctrl-c only.
NextQuit ==
    \/ LoopSteps
    \/ KeyboardEvent
    \/ EventDone
    \/ IterationEnds
    \/ WaitSteps
    \/ QuitSteps
    \/ WorkerSteps

\* The main thread keeps running; what the workers do is left open: a
\* handler need not return.
SpecQuit == Init /\ [][NextQuit]_vars /\ WF_vars(MainSteps)

\* The main thread keeps running, and so do the workers: a worker takes the
\* messages of its channel and every handler returns.
SpecQuitFair ==
    /\ SpecQuit
    /\ \A w \in Workers : WF_vars(WorkerReceive(w)) /\ WF_vars(WorkerComplete(w))

\* The behaviours of Spec with keyboard events, ctrl-c and the reader
\* threads that end on it.
NextReaders ==
    \/ NextQuit
    \/ ReaderSteps

SpecReaders == Init /\ [][NextReaders]_vars

\* The main thread's lock and unlock operations alone, one piece of code
\* after the other.
SpecLocks == Init /\ [][LockSteps]_vars

\* The calls of process_keyboard_events alone, as far as their timeouts go.
SpecPace == Init /\ [][PaceSteps]_vars

\* ============================================================== claims

\* C1: after an upcall barrier was armed to n and n workers completed (its
\* counter is back at zero), the dispatcher's wait has returned without its
\* timeout expiring, for every n >= 0 and every interleaving.
C1_WaitReturnsWithoutTimeout ==
    (pc = "check" /\ pending[bmsg] = 0) => ~timed_out

\* C2: when the wait for an input event's barrier returns by timeout while a
\* live worker is still in its handler of the event, the dispatcher leaves the
\* wait loop and goes on; it does not wait again.
C2_TimeoutEndsUpcallWait ==
    [][(/\ pc = "check"
        /\ bmsg \in InputKinds
        /\ timed_out
        /\ \E w \in Workers : alive[w] /\ cur[w] = bmsg)
       => pc' # "wait"]_vars

\* C3: an index whose send failed during an input-event broadcast is in the
\* failed set, and it does not hold up the barrier: once no live worker has
\* the event queued or in its handler, the counter is zero.
C3_SendFailureEntersFailedSet ==
    (bmsg \in InputKinds /\ pc \in {"bcast", "wait", "parked", "check"}) =>
        /\ send_failed \subseteq failed_txs
        /\ (/\ pc # "bcast"
            /\ \A w \in Workers :
                   alive[w] =>
                       /\ cur[w] # bmsg
                       /\ \A i \in 1 .. Len(queue[w]) : queue[w][i] # bmsg)
           => pending[bmsg] = 0

\* C4: no send is attempted to an index that entered the failed set during
\* the lifetime of the current profile, whatever the broadcast.
C4_NoSendToFailedWorker ==
    (/\ pc = "bcast"
     /\ idx < LUA_TXS
     /\ ~(SkipsFailed(bmsg) /\ idx \in failed_txs))
    => idx \notin life_failed

\* C5: at most one worker is processing RealizeColorMap (blending into the
\* canvas) at any instant.
C5_OneBlenderAtATime ==
    Cardinality({w \in Workers : alive[w] /\ cur[w] = "RealizeColorMap"}) <= 1

\* C6: when a frame is about to be pushed, the blends applied to the canvas
\* since its clear are in strictly ascending worker-index order and hold every
\* live worker (exactly once, the order being strict).
C6_BlendsAscendingOncePerWorker ==
    (pc = "render_push" /\ ~drop_frame) =>
        /\ \A i, j \in 1 .. Len(LED_MAP) : i < j => LED_MAP[i] < LED_MAP[j]
        /\ \A w \in 0 .. (LUA_TXS - 1) :
               (alive[w] /\ w \notin failed_txs) =>
                   \E i \in 1 .. Len(LED_MAP) : LED_MAP[i] = w

\* C7: when the dispatcher is about to read the canvas for the device, no
\* worker is processing a RealizeColorMap or still has one queued.
C7_NoBlendWhileCanvasIsRead ==
    (pc = "render_push" /\ ~drop_frame) =>
        \A w \in Workers :
            alive[w] =>
                /\ cur[w] # "RealizeColorMap"
                /\ \A i \in 1 .. Len(queue[w]) : queue[w][i] # "RealizeColorMap"

\* C8: a render pass with a non-empty failed set, in which no wait timed out
\* and every remaining index (there is one) blended into the canvas, is not
\* dropped.
C8_FailedWorkerDoesNotDropFrame ==
    (/\ pc = "render_push"
     /\ ~timed_out
     /\ failed_txs # {}
     /\ (0 .. (LUA_TXS - 1)) \ failed_txs # {}
     /\ \A w \in (0 .. (LUA_TXS - 1)) \ failed_txs :
            \E i \in 1 .. Len(LED_MAP) : LED_MAP[i] = w)
    => ~drop_frame

\* C9: a timeout of the wait for RealizeColorMap sets drop_frame and ends the
\* loop over the workers; the rest of that pass sends RealizeColorMap to no
\* worker, leaves the device as it is and leaves saved_frame_generation
\* unchanged, and the Tick broadcast follows.
C9_TimeoutDropsFrame ==
    [][/\ (pc = "render_parked" /\ timed_out') =>
              /\ drop_frame'
              /\ pc' = "render_push"
              /\ UNCHANGED <<queue, device, saved_frame_generation>>
       /\ (pc = "render_push" /\ timed_out) =>
              /\ drop_frame
              /\ pc' \in {"render_push", "bcast"}
              /\ pc' = "bcast" => bmsg' = "Tick"
              /\ \A w \in Workers : Len(queue'[w]) <= Len(queue[w])
              /\ UNCHANGED <<device, saved_frame_generation>>]_vars

\* a pass timed out while a further worker had not been sent RealizeColorMap
C9_Witness ==
    /\ pc = "render_push"
    /\ timed_out
    /\ drop_frame
    /\ idx + 1 < LUA_TXS
    /\ alive[idx + 1]
    /\ (idx + 1) \notin failed_txs

\* C10: a composite pass (canvas clear, RealizeColorMap sends, device write)
\* starts only when the frame generation counter exceeds
\* saved_frame_generation; saved_frame_generation never decreases and never
\* exceeds the counter.
C10_GenerationProtocol ==
    [][/\ (~InRenderPass /\ InRenderPass') =>
              saved_frame_generation < FRAME_GENERATION_COUNTER
       /\ (\E w \in Workers : Len(queue'[w]) > Len(queue[w])) =>
              (pc = "render_loop" /\ saved_frame_generation < current_frame_generation)
       /\ device' # device =>
              (pc = "render_push" /\ saved_frame_generation < current_frame_generation)
       /\ saved_frame_generation <= FRAME_GENERATION_COUNTER
       /\ saved_frame_generation' >= saved_frame_generation
       /\ saved_frame_generation' <= FRAME_GENERATION_COUNTER']_vars

\* a pass ran, its frame is on the device and the next tick has nothing to render
C10_Witness ==
    /\ pc = "render"
    /\ saved_frame_generation > 0
    /\ saved_frame_generation = FRAME_GENERATION_COUNTER
    /\ device = LedFrame(saved_frame_generation)

\* C11: the last-rendered generation marker advances only in a step that
\* pushes the canvas of that generation to the device; when the device lock
\* is not acquired (or the write fails) the marker stays where it was.
C11_MarkerAdvancesOnlyOnPush ==
    [][saved_frame_generation' # saved_frame_generation
           => device' = LedFrame(saved_frame_generation')]_vars

\* C12: every blend applied to the canvas after the clear of a render pass
\* answers a RealizeColorMap that this pass has sent: while the loop is
\* about to send to index idx the blending worker's index is below idx, and
\* it is never above idx.
C12_OnlyBlendsOfThisPass ==
    [][\A w \in Workers :
           LED_MAP' = Append(LED_MAP, w)
               => (w <= idx /\ (pc = "render_loop" => w < idx))]_vars

\* C13: while a keyboard EV_KEY event with value 0 or 1 is processed with an
\* empty failed set and every worker alive: the message is KeyDown for value
\* 1 and KeyUp for value 0 and its barrier is armed to the number of
\* workers; the broadcast sends exactly one message to each worker, carrying
\* the mapped key index; nothing is on the mirror queue before the wait has
\* ended (the barrier is at zero), and then the raw event is.
C13_KeyEventDispatch ==
    (/\ src = "keyboard"
     /\ event.type = "EV_KEY"
     /\ event.value < 2
     /\ failed_txs = {}
     /\ \A w \in 0 .. (LUA_TXS - 1) : alive[w])
    =>
        /\ pc \in {"bcast", "wait", "parked", "check"} =>
               /\ bmsg = (IF event.value = 1 THEN "KeyDown" ELSE "KeyUp")
               /\ UINPUT_TX = <<>>
        /\ (pc = "bcast" /\ idx = 0) => pending[bmsg] = LUA_TXS
        /\ pc \in {"wait", "parked", "check", "event_done", "iteration_end"} =>
               sent = [i \in 1 .. LUA_TXS |->
                          [to |-> i - 1,
                           msg |-> IF event.value = 1 THEN "KeyDown" ELSE "KeyUp",
                           arg |-> <<ev_key_to_key_index(event.code), 0, 0>>]]
        /\ pc = "event_done" =>
               /\ UINPUT_TX = <<>>
               /\ pending["KeyDown"] = 0
               /\ pending["KeyUp"] = 0
        /\ pc = "iteration_end" => UINPUT_TX = <<event>>

\* a key press was sent to two live workers and then mirrored
C13_Witness ==
    /\ src = "keyboard"
    /\ pc = "iteration_end"
    /\ event = [type |-> "EV_KEY", code |-> 1, value |-> 1]
    /\ LUA_TXS = 2
    /\ failed_txs = {}
    /\ \A w \in 0 .. 1 : alive[w]
    /\ Len(sent) = 2
    /\ UINPUT_TX = <<event>>

\* C14: while a keyboard event with value >= 2 (a key repetition) is
\* processed, no broadcast runs and none was made for it, no worker holds a
\* KeyDown or KeyUp, and the KeyDown and KeyUp barriers are not armed.
C14_RepetitionNotDispatched ==
    (src = "keyboard" /\ event # NoEvent /\ event.value >= 2)
    =>
        /\ pc \in {"event_done", "iteration_end"}
        /\ bmsg = "none"
        /\ sent = <<>>
        /\ pending["KeyDown"] = 0
        /\ pending["KeyUp"] = 0
        /\ \A w \in Workers :
               /\ cur[w] \notin {"KeyDown", "KeyUp"}
               /\ \A i \in 1 .. Len(queue[w]) : queue[w][i] \notin {"KeyDown", "KeyUp"}

\* a key repetition was taken from the keyboard while two workers are alive
C14_Witness ==
    /\ src = "keyboard"
    /\ pc = "iteration_end"
    /\ event = [type |-> "EV_KEY", code |-> 1, value |-> 2]
    /\ LUA_TXS = 2
    /\ \A w \in 0 .. 1 : alive[w]

\* C15: while a HID KeyDown/KeyUp is processed, two broadcasts follow each
\* other. The first is HidEvent: its barrier is armed to N - F, and while it
\* and its wait run the key barrier is at zero and no worker holds the key
\* message. The second, KeyDown/KeyUp with the mapped index, only runs when
\* that index is not zero and the HidEvent barrier is back at zero; its
\* barrier is armed to N - F as well. Each broadcast sends one message to
\* each index outside the failed set, in ascending order, and none to an
\* index of the failed set. With a mapped index of zero the event ends with
\* the HidEvent broadcast.
C15_HidKeyDispatch ==
    (src = "hid" /\ event.type \in {"KeyDown", "KeyUp"})
    =>
        /\ pc \in {"bcast", "wait", "parked", "check"} =>
               bmsg \in {"HidEvent", event.type}
        /\ bmsg = "HidEvent" =>
               /\ pending[event.type] = 0
               /\ \A w \in Workers :
                      /\ cur[w] # event.type
                      /\ \A i \in 1 .. Len(queue[w]) : queue[w][i] # event.type
        /\ bmsg = event.type =>
               /\ hid_code_to_key_index(event.code) > 0
               /\ pending["HidEvent"] = 0
        /\ (pc = "bcast" /\ idx = 0) =>
               pending[bmsg] = LUA_TXS - Cardinality(failed_txs)
        /\ pc \in {"wait", "parked", "check", "event_done", "iteration_end"} =>
               /\ Len(sent) = LUA_TXS - Cardinality(failed_txs)
               /\ \A i \in 1 .. Len(sent) :
                      /\ sent[i].to \in (0 .. (LUA_TXS - 1)) \ failed_txs
                      /\ \A j \in 1 .. Len(sent) : i < j => sent[i].to < sent[j].to
                      /\ \/ /\ sent[i].msg = "HidEvent"
                            /\ sent[i].arg = <<event.code, 0, 0>>
                         \/ /\ sent[i].msg = event.type
                            /\ sent[i].arg = <<hid_code_to_key_index(event.code), 0, 0>>
                      /\ pc \in {"wait", "parked", "check"} => sent[i].msg = bmsg
                      /\ pc \in {"event_done", "iteration_end"} =>
                             (sent[i].msg = "HidEvent"
                                  <=> hid_code_to_key_index(event.code) = 0)

\* of two workers index 1 is in the failed set; a HID KeyUp with a mapped
\* index above zero was dispatched, and its KeyUp went to worker 0 only
C15_Witness ==
    /\ src = "hid"
    /\ pc = "event_done"
    /\ event = [type |-> "KeyUp", code |-> 1, value |-> 0]
    /\ LUA_TXS = 2
    /\ failed_txs = {1}
    /\ sent = <<[to |-> 0, msg |-> "KeyUp", arg |-> <<7, 0, 0>>]>>

\* C16: in the step that ends the drain of the system, HID, mouse or keyboard
\* source: if the drain took no event (its first receive delivered nothing),
\* the pending flag it returns is false and no message was sent (no channel
\* of a worker and no barrier changed); if the drain ends although its last
\* receive delivered an event that was processed (the cap ended it), the
\* pending flag it returns is true.
C16_EmptyAndCappedDrains ==
    [][(/\ src \in DrainedSources
        /\ pc \in {"drain", "iteration_end"}
        /\ (src' # src \/ pc' = "render"))
       =>
           /\ (pc = "drain" /\ consumed = 0) =>
                  /\ ~events_pending'[src]
                  /\ sent = <<>>
                  /\ UNCHANGED <<queue, pending, sent>>
           /\ pc = "iteration_end" => events_pending'[src]]_vars

\* the mouse drain starts after a HID drain that the cap ended and a system
\* drain that returned without the cap
C16_Witness ==
    /\ src = "mouse"
    /\ pc = "drain"
    /\ loop_counter = 0
    /\ events_pending["hid"]
    /\ ~events_pending["system"]
    /\ LUA_TXS = 2

\* C17: a drain that ends because its last receive delivered no event (the
\* queue was empty, or the HID read returned no real event) returns a
\* pending flag of false, whatever the number of events it took before.
C17_PendingOnlyFromCap ==
    [][(/\ src \in DrainedSources
        /\ pc = "drain"
        /\ (src' # src \/ pc' = "render"))
       => ~events_pending'[src]]_vars

\* C18: the drain of a source takes at most MAX_EVENTS_PER_ITERATION events
\* from its queue in one tick.
C18_AtMostMaxEventsConsumed == consumed <= MAX_EVENTS_PER_ITERATION

\* C19: relative motion is conserved per axis and per worker: whenever the
\* accumulation buffer is flushed (it is (0, 0, 0) and no MouseMove broadcast
\* is running) while every worker is alive and the failed set is empty,
\* every worker has received, in the MouseMove messages sent to it, the sums
\* of the raw values of each axis (nothing is owed to it).
C19_MotionConserved ==
    (/\ mouse_motion_buf = <<0, 0, 0>>
     /\ ~(pc = "bcast" /\ bmsg = "MouseMove")
     /\ failed_txs = {}
     /\ \A w \in 0 .. (LUA_TXS - 1) : alive[w])
    => \A w \in 0 .. (LUA_TXS - 1) : owed[w] = <<0, 0, 0>>

\* C20: the raw motion events that arrive without time passing between them
\* (all within one rate-limit window) produce at most one MouseMove
\* broadcast, and with one live worker that broadcast carries all of them:
\* once it is made, no motion of the window is left in the buffer.
C20_BurstCoalesced ==
    /\ Len(burst.upcalls) <= 1
    /\ (/\ LUA_TXS = 1
        /\ alive[0]
        /\ failed_txs = {}
        /\ burst.upcalls # <<>>
        /\ ~(pc = "bcast" /\ bmsg = "MouseMove"))
       => mouse_motion_buf = <<0, 0, 0>>

\* C21: a profile switch whose pre-flight check fails (a script or its
\* manifest is inaccessible) sends no Unload, leaves the workers and their
\* senders as they are and emits no ActiveProfileChanged notification,
\* whether it was requested by a SwitchProfile command, by a pending profile
\* name or by a slot change.
C21_FailedPreflightIsSilent ==
    [][(/\ \/ pc \in {"slot", "profile_name"} /\ pc' # pc
           \/ pc = "drain" /\ pc' = "dbus_done"
        /\ switch_log'.result = "script_inaccessible")
       => /\ switch_log'.ops = <<>>
          /\ UNCHANGED <<LUA_TXS, alive, queue, cur>>
          /\ \A i \in DOMAIN dbus_api_tx' : dbus_api_tx'[i] # "ActiveProfileChanged"]_vars

\* C22: a profile switch that fails, by a profile that does not parse or by
\* an inaccessible script asset, leaves the active profile, the senders of
\* the workers (and the workers behind them) and the slot-to-profile map as
\* they were before the request.
C22_FailedSwitchChangesNothing ==
    [][(/\ \/ pc \in {"slot", "profile_name"} /\ pc' # pc
           \/ pc = "drain" /\ pc' = "dbus_done"
        /\ switch_log'.result \in {"profile_error", "script_inaccessible"})
       => UNCHANGED <<ACTIVE_PROFILE, LUA_TXS, alive, queue, cur, SLOT_PROFILES>>]_vars

\* a switch to another profile than the active one has failed while workers
\* were running
C22_Witness ==
    /\ switch_log.result \in {"profile_error", "script_inaccessible"}
    /\ ACTIVE_PROFILE # NoProfile
    /\ switch_log.file # ACTIVE_PROFILE
    /\ LUA_TXS > 0
    /\ \E w \in Workers : alive[w]

C24_ActiveSlotInRange ==
    /\ ACTIVE_SLOT \in DOMAIN SLOT_PROFILES
    /\ pc # "panicked"

\* C25: once the quit flag is set, the main loop eventually leaves its loop,
\* and main then arms the Quit barrier and sends Quit(0) to the workers,
\* whatever the workers are doing when the flag is set.
C25_QuitLeadsToQuitSent ==
    QUIT ~> (\/ bmsg = "Quit" /\ pc # "bcast"
             \/ pc = "exited")

C27_MainLoopNeverPanics ==
    pc # "panicked"

\* C28: on every shutdown after the main loop has run the LEDs are set to
\* the off pattern and the device is closed; a failure to store the
\* persistent plugin state is only logged and does not prevent it.
C28_ShutdownTurnsLedsOff ==
    pc = "exited" => device = LedOffPattern

\* C29: within a tick the sources are drained in the fixed order system,
\* file system, remote control, HID, mouse, keyboard: the drain that is
\* running only ever gives way to the next of that order, and the render
\* pass starts only when the keyboard drain has finished.
C29_FixedDrainOrder ==
    [][/\ src' # src =>
              <<src, src'>> \in {<<"system", "filesystem">>, <<"filesystem", "dbus">>,
                                 <<"dbus", "hid">>, <<"hid", "mouse">>,
                                 <<"mouse", "keyboard">>, <<"keyboard", "system">>}
       /\ (pc' = "render" /\ pc # "render") =>
              /\ src = "keyboard"
              /\ pc \in {"drain", "iteration_end"}]_vars

\* the render pass is reached in a tick whose HID and mouse drains were both
\* ended by the cap
C29_Witness ==
    /\ pc = "render"
    /\ events_pending["hid"]
    /\ events_pending["mouse"]

\* C30: events never overlap inside a worker. When the dispatcher arms the
\* barrier of a key event and starts to send it, no running worker holds an
\* earlier input event, neither in its handler nor in its channel; the
\* workers are then handed the events one at a time, in the order in which
\* the dispatcher received them.
C30_NoOverlapInWorker ==
    /\ (pc = "bcast" /\ bmsg \in InputKinds /\ idx = 0) =>
           \A w \in Workers :
               alive[w] =>
                   /\ cur[w] \notin InputKinds
                   /\ \A i \in DOMAIN queue[w] : queue[w][i] \notin InputKinds
    /\ \A w \in Workers :
           alive[w] =>
               Cardinality({i \in DOMAIN queue[w] : queue[w][i] \in InputKinds})
                   + (IF cur[w] \in InputKinds THEN 1 ELSE 0) <= 1

\* in the second iteration of a keyboard drain the wait for a KeyDown has
\* timed out while a running worker is still in its handler: the dispatcher
\* is held back
C30_Witness ==
    /\ pc = "check"
    /\ bmsg = "KeyDown"
    /\ timed_out
    /\ loop_counter = 1
    /\ pending["KeyDown"] > 0
    /\ \E w \in Workers : alive[w] /\ cur[w] = "KeyDown"

\* C31: every mutex acquisition of the main thread is a leaf lock: the main
\* thread never holds one of the shared mutexes (worker senders, a barrier
\* counter, active profile, pending profile name, slot map, configuration)
\* while it acquires another.
C31_LeafLocksOnly ==
    Len(held) <= 1

\* C32: when process_keyboard_events returns, the timeout it last slept with
\* is zero if any of the four pending flags of the iteration is set, the
\* keyboard's own included; otherwise it is MAIN_LOOP_DELAY_MILLIS less the
\* elapsed time less the offset, at least zero and at most
\* MAIN_LOOP_DELAY_MILLIS.
C32_SleepZeroWhenPending ==
    pace.at = "returned"
        => IF \/ pace.hid_events_pending
              \/ pace.mouse_events_pending
              \/ pace.system_events_pending
              \/ pace.keyboard_events_pending
           THEN pace.sleep_millis = 0
           ELSE pace.sleep_millis \in 0 .. MAIN_LOOP_DELAY_MILLIS

\* C33: the Tick broadcast starts when the render step is over; each of its
\* steps takes the next index, sends Tick to it unless it is in the failed
\* set, adds it to the failed set if the worker has terminated, and touches
\* no barrier; when the loop ends, Tick has been sent exactly once to every
\* index that was not in the failed set, and the loop goes on to the quit
\* check without a wait.
C33_TickOnceToEveryLiveWorker ==
    [][/\ (bmsg # "Tick" /\ bmsg' = "Tick")
           => /\ pc \in {"render", "render_push"}
              /\ pc' = "bcast"
              /\ idx' = 0
              /\ sent' = <<>>
       /\ (pc = "bcast" /\ bmsg = "Tick" /\ (idx' # idx \/ pc' # pc))
           => /\ pending' = pending
              /\ IF idx < LUA_TXS
                 THEN /\ idx' = idx + 1
                      /\ pc' = "bcast"
                      /\ sent' = IF idx \in failed_txs
                                 THEN sent
                                 ELSE Append(sent, [to |-> idx, msg |-> "Tick",
                                                    arg |-> Arg(0)])
                      /\ failed_txs' = IF idx \notin failed_txs /\ ~alive[idx]
                                       THEN failed_txs \cup {idx}
                                       ELSE failed_txs
                 ELSE /\ pc' = "quit_check"
                      /\ failed_txs' = failed_txs
                      /\ \A i \in 0 .. (LUA_TXS - 1) :
                             Cardinality({n \in 1 .. Len(sent) : sent[n].to = i})
                                 = IF i \in failed_txs \ send_failed THEN 0 ELSE 1]_vars

\* a Tick broadcast to two workers is over: the first had terminated and has
\* entered the failed set by its send, the second took its Tick
C33_Witness ==
    /\ pc = "bcast"
    /\ bmsg = "Tick"
    /\ LUA_TXS = 2
    /\ idx = 2
    /\ send_failed = {0}
    /\ failed_txs = {0}
    /\ alive[1]
    /\ Len(sent) = 2

\* C34: the tail of an iteration of the mouse drain sends the raw event on
\* UINPUT_TX if and only if it is no REL_X, REL_Y or REL_Z event, nothing
\* else of the mouse drain sends on UINPUT_TX, and a wheel or button event
\* reaches that tail only from the exit test of its wait loop, with the
\* counter of its barrier at zero.
C34_MirrorAllButMotion ==
    [][/\ (src = "mouse" /\ pc = "event_done" /\ pc' # pc)
           => UINPUT_TX' = IF event.type \in {"REL_X", "REL_Y", "REL_Z"}
                           THEN <<>> ELSE <<event>>
       /\ (src = "mouse" /\ UINPUT_TX' # UINPUT_TX /\ UINPUT_TX' # <<>>)
           => pc = "event_done"
       /\ (/\ src = "mouse"
           /\ pc # "event_done"
           /\ pc' = "event_done"
           /\ event'.type \in {"REL_WHEEL", "EV_KEY"})
           => /\ pc = "check"
              /\ bmsg = MouseMessage(event)
              /\ pending[bmsg] = 0]_vars

\* a button press was answered by two workers and then mirrored
C34_Witness ==
    /\ src = "mouse"
    /\ pc = "iteration_end"
    /\ event.type = "EV_KEY"
    /\ event.value = 1
    /\ UINPUT_TX = <<event>>
    /\ Len(sent) = 2
    /\ \A w \in Workers : alive[w]

\* C35: when the render loop is over and the frame is not dropped, so that
\* the canvas goes to the device, the counter of COLOR_MAPS_READY_CONDITION
\* is zero and every worker the pass was armed for has ended the blend the
\* pass asked of it: none of them has the RealizeColorMap still queued or
\* running.
C35_WrittenFrameHasNoPendingOps ==
    (pc = "render_push" /\ ~drop_frame)
        => /\ pending["RealizeColorMap"] = 0
           /\ \A i \in (0 .. (LUA_TXS - 1)) \ failed_txs :
                  /\ cur[i] # "RealizeColorMap"
                  /\ \A n \in 1 .. Len(queue[i]) : queue[i][n] # "RealizeColorMap"

\* C36: the failed set holds indices of the current worker sender map only,
\* so that LUA_TXS.len() - failed_txs.len() does not underflow wherever a
\* barrier is armed, and no barrier counter is ever below zero.
C36_ArmNeverUnderflows ==
    /\ failed_txs \subseteq 0 .. (LUA_TXS - 1)
    /\ LiveCount >= 0
    /\ \A k \in BarrierKinds : pending[k] >= 0

\* a key barrier was armed for a map of two senders of which one is in the
\* failed set, after the profile of the slot had been replaced
C36_Witness ==
    /\ pc = "bcast"
    /\ bmsg \in {"KeyDown", "KeyUp"}
    /\ idx = 0
    /\ LUA_TXS = 2
    /\ failed_txs = {1}
    /\ pending[bmsg] = 1
    /\ ACTIVE_PROFILE # ACTIVE_SLOT

\* C37: the MouseMove messages of one broadcast that reach their workers
\* all carry the same payload, the motion buffer as it was when the flush
\* started, which is not (0, 0, 0).
C37_SameMouseMoveForAll ==
    bmsg = "MouseMove"
        => \A n \in 1 .. Len(sent), m \in 1 .. Len(sent) :
               (sent[n].to \notin send_failed /\ sent[m].to \notin send_failed)
                   => /\ sent[n].arg = sent[m].arg
                      /\ sent[n].arg # <<0, 0, 0>>

\* C38: a profile name another thread has stored in ACTIVE_PROFILE_NAME is
\* not lost: the main loop resets the field to None only when it holds no
\* name or the name switch_profile was called for in this iteration.
C38_NoProfileRequestLost ==
    [][(/\ pc = "profile_name_reset"
        /\ pc' # pc
        /\ ACTIVE_PROFILE_NAME # NoProfile)
       => /\ switch_log.result # "none"
          /\ switch_log.file = ACTIVE_PROFILE_NAME]_vars

\* C39: when a call of switch_profile has returned Ok, every sender it
\* pushed to LUA_TXS belongs to a script whose spawn_lua_thread succeeded, and
\* the workers of all senders of the map run.
C39_NoSenderWithoutWorker ==
    [][(/\ \/ pc \in {"slot", "profile_name"} /\ pc' # pc
           \/ pc = "drain" /\ pc' = "dbus_done"
        /\ switch_log'.result = "ok")
       => /\ \A n \in 1 .. Len(switch_log'.ops) :
                 switch_log'.ops[n].op = "spawn" => switch_log'.ops[n].ok
          /\ \A i \in 0 .. (LUA_TXS' - 1) : alive'[i]]_vars

\* C40: once the main loop is past its slot and profile step, with the slot
\* change taken note of and a profile loaded, the active profile is the one
\* the slot map records for the active slot.
C40_ActiveProfileIsSlotProfile ==
    (/\ pc \notin {"slot", "profile_name", "profile_name_reset", "panicked"}
     /\ ACTIVE_SLOT = saved_slot
     /\ ACTIVE_SLOT \in DOMAIN SLOT_PROFILES
     /\ ACTIVE_PROFILE # NoProfile)
    => ACTIVE_PROFILE = SLOT_PROFILES[ACTIVE_SLOT]

====
